---- MODULE Spec2Model ----
(***************************************************************************)
(* PulseBridge: the coordinator agent's session orchestration              *)
(* (src/agent/fetch_agents/coordinator_agent.py) and the rule-based        *)
(* cardiology scoring engine (src/agent/metta/cardiology_knowledge.py).    *)
(*                                                                         *)
(* Time is counted in minutes (one clock unit = 60 s); the poll loop of    *)
(* handle_web_query counts half seconds (one poll unit = 0.5 s).           *)
(* Confidences, boosts and urgencies are counted in hundredths.            *)
(***************************************************************************)
EXTENDS Integers, Sequences, FiniteSets, TLC

(***************************************************************************)
(* Bounds of the model.                                                    *)
(***************************************************************************)
\* inbound user messages (ChatMessage, BridgeChatMessage, WebQuery) per run
MaxQueries == 2
\* oldest session the clock lets age further, in minutes
MaxAge == 11
\* turns of the poll loop of handle_web_query that pass between two points
\* at which another handler may run
PollTurns == 40
\* longest risk-factor list a caller passes to analyze_symptoms
MaxFactors == 2
\* calls of one kind made by one caller of the reasoning layer
MaxCalls == 2
\* most words or phrases of a symptom text given to the triage engine
MaxWords == 3
\* calls of an agent's analyze made by one caller
MaxAgentCalls == 1

(***************************************************************************)
(* Program constants.                                                      *)
(***************************************************************************)
\* timedelta(minutes=5), in minutes
timeout_threshold == 5
\* on_interval(period=120.0), in minutes
cleanup_period == 2
\* max_wait = 60 (seconds), in half seconds
max_wait == 120
\* wait_interval = 0.5 (seconds), in half seconds
wait_interval == 1
\* half seconds in one minute of the clock
HalfSecondsPerMinute == 60 * 2

None == <<>>
Some(x) == <<x>>

Users == {"u1", "u2"}
\* the inbound user messages of the model: sender and text
Inbound == { <<"u1", "chest pain">>, <<"u2", "itchy skin">>, <<"u1", "Hey">> }
Specialties == {"cardiology", "neurology", "dermatology"}

(***************************************************************************)
(* Message texts.  A text is a sequence of characters; the sample texts of *)
(* the coordinator are a greeting and two symptom descriptions.            *)
(***************************************************************************)
Texts == {"Hey", "chest pain", "itchy skin"}

\* the characters of the string literals of the model
Chars(t) ==
  CASE t = "Hey" -> <<"H", "e", "y">>
    [] t = "chest pain" -> <<"c", "h", "e", "s", "t", " ", "p", "a", "i", "n">>
    [] t = "itchy skin" -> <<"i", "t", "c", "h", "y", " ", "s", "k", "i", "n">>
    [] t = "severe chest pain when I exercise and shortness of breath" -> <<"s", "e", "v", "e", "r", "e", " ", "c", "h", "e", "s", "t", " ", "p", "a", "i", "n", " ", "w", "h", "e", "n", " ", "I", " ", "e", "x", "e", "r", "c", "i", "s", "e", " ", "a", "n", "d", " ", "s", "h", "o", "r", "t", "n", "e", "s", "s", " ", "o", "f", " ", "b", "r", "e", "a", "t", "h">>
    [] t = "chest pain and short of breath" -> <<"c", "h", "e", "s", "t", " ", "p", "a", "i", "n", " ", "a", "n", "d", " ", "s", "h", "o", "r", "t", " ", "o", "f", " ", "b", "r", "e", "a", "t", "h">>
    [] t = "pain when walking" -> <<"p", "a", "i", "n", " ", "w", "h", "e", "n", " ", "w", "a", "l", "k", "i", "n", "g">>
    [] t = "heart racing and dizzy" -> <<"h", "e", "a", "r", "t", " ", "r", "a", "c", "i", "n", "g", " ", "a", "n", "d", " ", "d", "i", "z", "z", "y">>
    [] t = "swollen ankle" -> <<"s", "w", "o", "l", "l", "e", "n", " ", "a", "n", "k", "l", "e">>
    [] t = "hypertension" -> <<"h", "y", "p", "e", "r", "t", "e", "n", "s", "i", "o", "n">>
    [] t = "diabetes" -> <<"d", "i", "a", "b", "e", "t", "e", "s">>
    [] t = "Smoking" -> <<"S", "m", "o", "k", "i", "n", "g">>
    [] t = "High-Cholesterol" -> <<"H", "i", "g", "h", "-", "C", "h", "o", "l", "e", "s", "t", "e", "r", "o", "l">>
    [] t = "family history cardiac" -> <<"f", "a", "m", "i", "l", "y", " ", "h", "i", "s", "t", "o", "r", "y", " ", "c", "a", "r", "d", "i", "a", "c">>
    [] t = "age_over_60" -> <<"a", "g", "e", "_", "o", "v", "e", "r", "_", "6", "0">>
    [] t = "age_over_40" -> <<"a", "g", "e", "_", "o", "v", "e", "r", "_", "4", "0">>
    [] t = "smoking" -> <<"s", "m", "o", "k", "i", "n", "g">>
    [] t = "high_cholesterol" -> <<"h", "i", "g", "h", "_", "c", "h", "o", "l", "e", "s", "t", "e", "r", "o", "l">>
    [] t = "family_history_cardiac" -> <<"f", "a", "m", "i", "l", "y", "_", "h", "i", "s", "t", "o", "r", "y", "_", "c", "a", "r", "d", "i", "a", "c">>
    [] t = "sudden" -> <<"s", "u", "d", "d", "e", "n">>
    [] t = "severe" -> <<"s", "e", "v", "e", "r", "e">>
    [] t = "tearing" -> <<"t", "e", "a", "r", "i", "n", "g">>
    [] t = "ripping" -> <<"r", "i", "p", "p", "i", "n", "g">>
    [] t = "chest" -> <<"c", "h", "e", "s", "t">>
    [] t = "pain" -> <<"p", "a", "i", "n">>
    [] t = "radiating" -> <<"r", "a", "d", "i", "a", "t", "i", "n", "g">>
    [] t = "arm" -> <<"a", "r", "m">>
    [] t = "jaw" -> <<"j", "a", "w">>
    [] t = "shoulder" -> <<"s", "h", "o", "u", "l", "d", "e", "r">>
    [] t = "sweat" -> <<"s", "w", "e", "a", "t">>
    [] t = "sweating" -> <<"s", "w", "e", "a", "t", "i", "n", "g">>
    [] t = "numb and weak" -> <<"n", "u", "m", "b", " ", "a", "n", "d", " ", "w", "e", "a", "k">>
    [] t = "nausea" -> <<"n", "a", "u", "s", "e", "a">>
    [] t = "short" -> <<"s", "h", "o", "r", "t">>
    [] t = "breath" -> <<"b", "r", "e", "a", "t", "h">>
    [] t = "breathing" -> <<"b", "r", "e", "a", "t", "h", "i", "n", "g">>
    [] t = "exercise" -> <<"e", "x", "e", "r", "c", "i", "s", "e">>
    [] t = "exertion" -> <<"e", "x", "e", "r", "t", "i", "o", "n">>
    [] t = "activity" -> <<"a", "c", "t", "i", "v", "i", "t", "y">>
    [] t = "walking" -> <<"w", "a", "l", "k", "i", "n", "g">>
    [] t = "palpitation" -> <<"p", "a", "l", "p", "i", "t", "a", "t", "i", "o", "n">>
    [] t = "racing" -> <<"r", "a", "c", "i", "n", "g">>
    [] t = "irregular" -> <<"i", "r", "r", "e", "g", "u", "l", "a", "r">>
    [] t = "dizz" -> <<"d", "i", "z", "z">>
    [] t = "faint" -> <<"f", "a", "i", "n", "t">>
    [] t = "syncope" -> <<"s", "y", "n", "c", "o", "p", "e">>
    [] t = "skip" -> <<"s", "k", "i", "p">>
    [] t = "swell" -> <<"s", "w", "e", "l", "l">>
    [] t = "edema" -> <<"e", "d", "e", "m", "a">>
    [] t = "tired" -> <<"t", "i", "r", "e", "d">>
    [] t = "fatigue" -> <<"f", "a", "t", "i", "g", "u", "e">>
    [] t = "weak" -> <<"w", "e", "a", "k">>
    [] t = "hi" -> <<"h", "i">>
    [] t = "hello" -> <<"h", "e", "l", "l", "o">>
    [] t = "hey" -> <<"h", "e", "y">>
    [] t = "help" -> <<"h", "e", "l", "p">>
    [] t = "start" -> <<"s", "t", "a", "r", "t">>
    [] t = "greetings" -> <<"g", "r", "e", "e", "t", "i", "n", "g", "s">>
    [] t = "hurt" -> <<"h", "u", "r", "t">>
    [] t = "pressure" -> <<"p", "r", "e", "s", "s", "u", "r", "e">>
    [] t = "tight" -> <<"t", "i", "g", "h", "t">>
    [] t = "flutter" -> <<"f", "l", "u", "t", "t", "e", "r">>
    [] t = "dyspnea" -> <<"d", "y", "s", "p", "n", "e", "a">>
    [] t = "heart" -> <<"h", "e", "a", "r", "t">>
    [] t = "cardiac" -> <<"c", "a", "r", "d", "i", "a", "c">>
    [] t = "stairs" -> <<"s", "t", "a", "i", "r", "s">>
    [] t = "exertional" -> <<"e", "x", "e", "r", "t", "i", "o", "n", "a", "l">>
    [] t = "headache" -> <<"h", "e", "a", "d", "a", "c", "h", "e">>
    [] t = "head" -> <<"h", "e", "a", "d">>
    [] t = "migraine" -> <<"m", "i", "g", "r", "a", "i", "n", "e">>
    [] t = "cephalalgia" -> <<"c", "e", "p", "h", "a", "l", "a", "l", "g", "i", "a">>
    [] t = "dizzy" -> <<"d", "i", "z", "z", "y">>
    [] t = "dizziness" -> <<"d", "i", "z", "z", "i", "n", "e", "s", "s">>
    [] t = "vertigo" -> <<"v", "e", "r", "t", "i", "g", "o">>
    [] t = "spinning" -> <<"s", "p", "i", "n", "n", "i", "n", "g">>
    [] t = "lightheaded" -> <<"l", "i", "g", "h", "t", "h", "e", "a", "d", "e", "d">>
    [] t = "seizure" -> <<"s", "e", "i", "z", "u", "r", "e">>
    [] t = "convulsion" -> <<"c", "o", "n", "v", "u", "l", "s", "i", "o", "n">>
    [] t = "fit" -> <<"f", "i", "t">>
    [] t = "epilep" -> <<"e", "p", "i", "l", "e", "p">>
    [] t = "numb" -> <<"n", "u", "m", "b">>
    [] t = "numbness" -> <<"n", "u", "m", "b", "n", "e", "s", "s">>
    [] t = "tingling" -> <<"t", "i", "n", "g", "l", "i", "n", "g">>
    [] t = "pins" -> <<"p", "i", "n", "s">>
    [] t = "needles" -> <<"n", "e", "e", "d", "l", "e", "s">>
    [] t = "weakness" -> <<"w", "e", "a", "k", "n", "e", "s", "s">>
    [] t = "paralysis" -> <<"p", "a", "r", "a", "l", "y", "s", "i", "s">>
    [] t = "cant move" -> <<"c", "a", "n", "t", " ", "m", "o", "v", "e">>
    [] t = "vision" -> <<"v", "i", "s", "i", "o", "n">>
    [] t = "seeing" -> <<"s", "e", "e", "i", "n", "g">>
    [] t = "sight" -> <<"s", "i", "g", "h", "t">>
    [] t = "blurry" -> <<"b", "l", "u", "r", "r", "y">>
    [] t = "double" -> <<"d", "o", "u", "b", "l", "e">>
    [] t = "rash" -> <<"r", "a", "s", "h">>
    [] t = "spots" -> <<"s", "p", "o", "t", "s">>
    [] t = "hives" -> <<"h", "i", "v", "e", "s">>
    [] t = "eruption" -> <<"e", "r", "u", "p", "t", "i", "o", "n">>
    [] t = "skin" -> <<"s", "k", "i", "n">>
    [] t = "lesion" -> <<"l", "e", "s", "i", "o", "n">>
    [] t = "mole" -> <<"m", "o", "l", "e">>
    [] t = "growth" -> <<"g", "r", "o", "w", "t", "h">>
    [] t = "bump" -> <<"b", "u", "m", "p">>
    [] t = "itch" -> <<"i", "t", "c", "h">>
    [] t = "itching" -> <<"i", "t", "c", "h", "i", "n", "g">>
    [] t = "itchy" -> <<"i", "t", "c", "h", "y">>
    [] t = "scratch" -> <<"s", "c", "r", "a", "t", "c", "h">>
    [] t = "suddenly" -> <<"s", "u", "d", "d", "e", "n", "l", "y">>
    [] t = "acute" -> <<"a", "c", "u", "t", "e">>
    [] t = "came on" -> <<"c", "a", "m", "e", " ", "o", "n">>
    [] t = "terrible" -> <<"t", "e", "r", "r", "i", "b", "l", "e">>
    [] t = "worst" -> <<"w", "o", "r", "s", "t">>
    [] t = "unbearable" -> <<"u", "n", "b", "e", "a", "r", "a", "b", "l", "e">>
    [] t = "excruciating" -> <<"e", "x", "c", "r", "u", "c", "i", "a", "t", "i", "n", "g">>
    [] t = "spreading" -> <<"s", "p", "r", "e", "a", "d", "i", "n", "g">>
    [] t = "shoots" -> <<"s", "h", "o", "o", "t", "s">>
    [] t = "travels" -> <<"t", "r", "a", "v", "e", "l", "s">>
    [] t = "Seizure" -> <<"S", "e", "i", "z", "u", "r", "e">>
    [] t = "age_over_70" -> <<"a", "g", "e", "_", "o", "v", "e", "r", "_", "7", "0">>
    [] t = "atrial_fibrillation" -> <<"a", "t", "r", "i", "a", "l", "_", "f", "i", "b", "r", "i", "l", "l", "a", "t", "i", "o", "n">>
    [] t = "family_history_epilepsy" -> <<"f", "a", "m", "i", "l", "y", "_", "h", "i", "s", "t", "o", "r", "y", "_", "e", "p", "i", "l", "e", "p", "s", "y">>
    [] t = "head_injury_history" -> <<"h", "e", "a", "d", "_", "i", "n", "j", "u", "r", "y", "_", "h", "i", "s", "t", "o", "r", "y">>
    [] t = "head injury history" -> <<"h", "e", "a", "d", " ", "i", "n", "j", "u", "r", "y", " ", "h", "i", "s", "t", "o", "r", "y">>

\* str.lower() on the characters the sample strings use
LowerChar(c) ==
  CASE c = "C" -> "c"
    [] c = "H" -> "h"
    [] c = "I" -> "i"
    [] c = "S" -> "s"
    [] OTHER   -> c

Lower(s) == [i \in 1..Len(s) |-> LowerChar(s[i])]

\* g in s  (Python substring test)
IsSubstring(g, s) ==
  \E i \in 1..(Len(s) - Len(g) + 1) : SubSeq(s, i, i + Len(g) - 1) = g

\* variant of greetings without "hey"
greetings_formal == {"hi", "hello", "help", "start", "greetings"}

greetings == {"hi", "hello", "hey", "help", "start", "greetings"}

is_greeting(message) ==
  \E g \in greetings : IsSubstring(Chars(g), Lower(Chars(message)))

(***************************************************************************)
(* Session ids.  A ChatMessage carries the id its sender chose ("default"  *)
(* when omitted, or any other string); the bridge and web handlers build   *)
(* "bridge-<timestamp>" and "web-<timestamp>", modelled as the pair of the *)
(* prefix and the number of the query.                                     *)
(***************************************************************************)
DefaultId == <<"chat", 0>>
QueryNos == 1..MaxQueries
BridgeId(q) == <<"bridge", q>>
WebId(q) == <<"web", q>>

VARIABLES
  TRIAGE_AGENT_ADDRESS,  \* "" when not configured
  specialist_map,        \* specialty -> address, "" when not configured
  active_sessions,       \* session id -> session record
  net,                   \* messages in flight between the agents
  outbox,                \* messages sent to users
  awaiting,              \* handle_specialist_response runs suspended in ctx.send
  web,                   \* the handle_web_query run in its poll loop
  sinceSweep,            \* minutes since the last cleanup_stale_sessions run
  nq,                    \* number of inbound user messages so far
  queries,               \* the accepted consultations (history)
  last,                  \* the handler run that produced this state
  kb                     \* state of the analysis calls (scoring engine)

vars == <<TRIAGE_AGENT_ADDRESS, specialist_map, active_sessions, net, outbox,
          awaiting, web, sinceSweep, nq, queries, last, kb>>

coordVars == <<TRIAGE_AGENT_ADDRESS, specialist_map, active_sessions, net, outbox,
               awaiting, web, sinceSweep, nq, queries, last>>

config == <<TRIAGE_AGENT_ADDRESS, specialist_map>>


(***************************************************************************)
(* Records.                                                                *)
(***************************************************************************)
NoId == <<"none", 0>>

\* the session dictionary written by the three inbound handlers; the chat
\* handler sets neither mode key (dict.get then yields None, i.e. false);
\* age is datetime.now() - timestamp, in minutes
Session(user, symptoms, bridge, rest) ==
  [ user |-> user, symptoms |-> symptoms, age |-> 0,
    triage_response |-> None, specialist_response |-> None,
    bridge_mode |-> bridge, rest_mode |-> rest,
    response_ready |-> FALSE, final_response |-> None ]

\* a message to a user: ChatResponse, BridgeChatMessage, ChatAcknowledgement
\* or WebQueryResponse; text is the symptom text a final response reports on
UserMsg(to, type, kind, sid, text) ==
  [ to |-> to, type |-> type, kind |-> kind, session_id |-> sid, text |-> text ]

\* a message between the agents; q is the number of the query it stems from
NetMsg(type, sid, symptoms, specialty, q) ==
  [ type |-> type, session_id |-> sid, symptoms |-> symptoms,
    specialty |-> specialty, q |-> q ]

\* variant of Put that keeps no other key
PutAlone(f, k, v) == [x \in {k} |-> v]

\* d[k] = v
Put(f, k, v) == [x \in (DOMAIN f) \cup {k} |-> IF x = k THEN v ELSE f[x]]
Del(f, k) == [x \in (DOMAIN f) \ {k} |-> f[x]]

Ran(op, sid, outcome, toUser, toNet, removed) ==
  [ op |-> op, session_id |-> sid, outcome |-> outcome,
    toUser |-> toUser, toNet |-> toNet, removed |-> removed ]

IdleWeb == [ pc |-> "idle", session_id |-> NoId, sender |-> "", elapsed |-> 0,
             replies |-> 0 ]

SweepDue == sinceSweep >= cleanup_period

(***************************************************************************)
(* _send_error_response                                                    *)
(***************************************************************************)
send_error_response(user, session_id) ==
  UserMsg(user, "ChatResponse", "error", session_id, "")

(***************************************************************************)
(* _get_specialist_address: specialty_map.get(specialty.lower(), "")       *)
(***************************************************************************)
get_specialist_address(specialty) ==
  IF specialty \in DOMAIN specialist_map THEN specialist_map[specialty] ELSE ""

(***************************************************************************)
(* handle_chat_message                                                     *)
(***************************************************************************)
ChatIds == {DefaultId} \cup DOMAIN active_sessions

handle_chat_message(sender, message, session_id) ==
  /\ nq < MaxQueries
  /\ nq' = nq + 1
  /\ IF is_greeting(message)
     THEN /\ outbox' = outbox \cup
                 {UserMsg(sender, "ChatResponse", "greeting", session_id, "")}
          /\ last' = Ran("handle_chat_message", session_id, "greeting",
                 {UserMsg(sender, "ChatResponse", "greeting", session_id, "")}, {}, {})
          /\ UNCHANGED <<active_sessions, net, queries>>
     ELSE /\ active_sessions' =
                 Put(active_sessions, session_id, Session(sender, message, FALSE, FALSE))
          /\ IF TRIAGE_AGENT_ADDRESS = ""
             THEN /\ outbox' = outbox \cup {send_error_response(sender, session_id)}
                  /\ last' = Ran("handle_chat_message", session_id, "error",
                         {send_error_response(sender, session_id)}, {}, {})
                  /\ UNCHANGED <<net, queries>>
             ELSE /\ outbox' = outbox \cup
                         {UserMsg(sender, "ChatResponse", "processing", session_id, "")}
                  /\ net' = net \cup
                         {NetMsg("SymptomRoutingRequest", session_id, message, "", nq')}
                  /\ queries' = queries \cup
                         {[q |-> nq', mode |-> "push", user |-> sender,
                           session_id |-> session_id, text |-> message]}
                  /\ last' = Ran("handle_chat_message", session_id, "routed",
                         {UserMsg(sender, "ChatResponse", "processing", session_id, "")},
                         {NetMsg("SymptomRoutingRequest", session_id, message, "", nq')},
                         {})
  /\ UNCHANGED <<config, awaiting, web, sinceSweep, kb>>

(***************************************************************************)
(* handle_bridge_chat, for a message with text content                     *)
(***************************************************************************)
handle_bridge_chat(sender, message_text) ==
  /\ nq < MaxQueries
  /\ nq' = nq + 1
  /\ LET session_id == BridgeId(nq')
         ack == UserMsg(sender, "ChatAcknowledgement", "ack", NoId, "")
     IN
     IF is_greeting(message_text)
     THEN /\ outbox' = outbox \cup
                 {ack, UserMsg(sender, "BridgeChatMessage", "greeting", NoId, "")}
          /\ last' = Ran("handle_bridge_chat", NoId, "greeting",
                 {ack, UserMsg(sender, "BridgeChatMessage", "greeting", NoId, "")}, {}, {})
          /\ UNCHANGED <<active_sessions, net, queries>>
     ELSE /\ active_sessions' =
                 Put(active_sessions, session_id, Session(sender, message_text, TRUE, FALSE))
          /\ IF TRIAGE_AGENT_ADDRESS = ""
             THEN /\ outbox' = outbox \cup
                         {ack, UserMsg(sender, "BridgeChatMessage", "error", NoId, "")}
                  /\ last' = Ran("handle_bridge_chat", session_id, "error",
                         {ack, UserMsg(sender, "BridgeChatMessage", "error", NoId, "")},
                         {}, {})
                  /\ UNCHANGED <<net, queries>>
             ELSE /\ outbox' = outbox \cup {ack}
                  /\ net' = net \cup
                         {NetMsg("SymptomRoutingRequest", session_id, message_text, "", nq')}
                  /\ queries' = queries \cup
                         {[q |-> nq', mode |-> "bridge", user |-> sender,
                           session_id |-> session_id, text |-> message_text]}
                  /\ last' = Ran("handle_bridge_chat", session_id, "routed", {ack},
                         {NetMsg("SymptomRoutingRequest", session_id, message_text, "", nq')},
                         {})
  /\ UNCHANGED <<config, awaiting, web, sinceSweep, kb>>


(***************************************************************************)
(* handle_triage_response                                                  *)
(***************************************************************************)
SessionKnown(session_id) == session_id \in DOMAIN active_sessions

\* variant of session_not_found that answers the unknown session with an error
session_not_found_answered(op, msg) ==
  /\ last' = Ran(op, msg.session_id, "not_found",
                 {send_error_response("u1", msg.session_id)}, {}, {})
  /\ outbox' = outbox \cup {send_error_response("u1", msg.session_id)}
  /\ UNCHANGED active_sessions

\* lines 159-162 and 209-212: the session id is not in the table; the handler
\* logs a warning and returns
session_not_found(op, msg) ==
  /\ last' = Ran(op, msg.session_id, "not_found", {}, {}, {})
  /\ UNCHANGED <<active_sessions, outbox>>

TriageResult(msg) == [specialty |-> msg.specialty, symptoms |-> msg.symptoms]

\* lines 173-193: the request goes to the mapped specialist, or the session
\* is answered with an error when the specialty maps to no address
RouteToSpecialist(msg, sess) ==
  LET specialist_address == get_specialist_address(msg.specialty) IN
  IF specialist_address = ""
  THEN [ toUser |-> {send_error_response(sess.user, msg.session_id)},
         toNet |-> {}, outcome |-> "error" ]
  ELSE [ toUser |-> {},
         toNet |-> {NetMsg("SpecialistAnalysisRequest", msg.session_id,
                           sess.symptoms, specialist_address, msg.q)},
         outcome |-> "routed" ]

handle_triage_response(msg) ==
  /\ msg \in net
  /\ msg.type = "SpecialtyRecommendation"
  /\ IF ~SessionKnown(msg.session_id)
     THEN /\ net' = net \ {msg}
          /\ session_not_found("handle_triage_response", msg)
     ELSE LET sess == active_sessions[msg.session_id]
              r == RouteToSpecialist(msg, sess)
          IN
          /\ active_sessions' = [active_sessions EXCEPT
                 ![msg.session_id].triage_response = Some(TriageResult(msg))]
          /\ outbox' = outbox \cup r.toUser
          /\ net' = (net \ {msg}) \cup r.toNet
          /\ last' = Ran("handle_triage_response", msg.session_id, r.outcome,
                         r.toUser, r.toNet, {})
  /\ UNCHANGED <<config, awaiting, web, sinceSweep, nq, queries, kb>>

(***************************************************************************)
(* handle_specialist_response, up to the await of ctx.send (lines 196-295) *)
(***************************************************************************)
SpecialistResult(msg) == [specialty |-> msg.specialty, symptoms |-> msg.symptoms]

\* the delivery branch of lines 259-298
DeliveryMode(sess) ==
  IF sess.bridge_mode THEN "bridge"
  ELSE IF sess.rest_mode THEN "rest"
  ELSE "push"

FinalMsg(mode, sess, session_id, text) ==
  CASE mode = "bridge" -> UserMsg(sess.user, "BridgeChatMessage", "final", NoId, text)
    [] mode = "rest"   -> UserMsg(sess.user, "WebQueryResponse", "final", NoId, text)
    [] mode = "push"   -> UserMsg(sess.user, "ChatResponse", "final", session_id, text)

BagAdd(b, k) == Put(b, k, IF k \in DOMAIN b THEN b[k] + 1 ELSE 1)
BagRemove(b, k) == IF b[k] = 1 THEN Del(b, k) ELSE [b EXCEPT ![k] = b[k] - 1]

handle_specialist_response(msg) ==
  /\ msg \in net
  /\ msg.type = "SpecialistAnalysisResponse"
  /\ net' = net \ {msg}
  /\ IF ~SessionKnown(msg.session_id)
     THEN /\ session_not_found("handle_specialist_response", msg)
          /\ UNCHANGED awaiting
     ELSE LET sid == msg.session_id
              sess == active_sessions[sid]
              mode == DeliveryMode(sess)
              final == FinalMsg(mode, sess, sid, msg.symptoms)
              stored == [active_sessions EXCEPT
                           ![sid].specialist_response = Some(SpecialistResult(msg))]
          IN
          IF sess.triage_response = None
          THEN \* _format_complete_response subscripts triage = None: TypeError
               /\ active_sessions' = stored
               /\ last' = Ran("handle_specialist_response", sid, "TypeError", {}, {}, {})
               /\ UNCHANGED <<outbox, awaiting>>
          ELSE IF mode = "rest"
          THEN /\ active_sessions' = [stored EXCEPT
                      ![sid].final_response = Some(final),
                      ![sid].response_ready = TRUE]
               /\ last' = Ran("handle_specialist_response", sid, "stored", {}, {}, {})
               /\ UNCHANGED <<outbox, awaiting>>
          ELSE /\ active_sessions' = stored
               /\ outbox' = outbox \cup {final}
               /\ awaiting' = BagAdd(awaiting, sid)
               /\ last' = Ran("handle_specialist_response", sid, "sent", {final}, {}, {})
  /\ UNCHANGED <<config, web, sinceSweep, nq, queries, kb>>

(***************************************************************************)
(* handle_specialist_response, after the await: del active_sessions[id]    *)
(* (lines 284 and 298)                                                     *)
(***************************************************************************)
specialist_cleanup(session_id) ==
  /\ session_id \in DOMAIN awaiting
  /\ awaiting' = BagRemove(awaiting, session_id)
  /\ IF SessionKnown(session_id)
     THEN /\ active_sessions' = Del(active_sessions, session_id)
          /\ last' = Ran("specialist_cleanup", session_id, "deleted", {}, {},
                         {[session_id |-> session_id,
                           session |-> active_sessions[session_id]]})
     ELSE /\ UNCHANGED active_sessions
          /\ last' = Ran("specialist_cleanup", session_id, "KeyError", {}, {}, {})
  /\ UNCHANGED <<config, net, outbox, web, sinceSweep, nq, queries, kb>>


(***************************************************************************)
(* handle_web_query, up to the poll loop (lines 564-628)                   *)
(***************************************************************************)
handle_web_query(sender, message) ==
  /\ nq < MaxQueries
  /\ web.pc = "idle"
  /\ nq' = nq + 1
  /\ LET session_id == WebId(nq') IN
     IF is_greeting(message)
     THEN /\ outbox' = outbox \cup
                 {UserMsg(sender, "WebQueryResponse", "greeting", NoId, "")}
          /\ last' = Ran("handle_web_query", NoId, "greeting",
                 {UserMsg(sender, "WebQueryResponse", "greeting", NoId, "")}, {}, {})
          /\ UNCHANGED <<active_sessions, net, queries, web>>
     ELSE /\ active_sessions' =
                 Put(active_sessions, session_id, Session(sender, message, FALSE, TRUE))
          /\ IF TRIAGE_AGENT_ADDRESS = ""
             THEN /\ outbox' = outbox \cup
                         {UserMsg(sender, "WebQueryResponse", "error", NoId, "")}
                  /\ last' = Ran("handle_web_query", session_id, "error",
                         {UserMsg(sender, "WebQueryResponse", "error", NoId, "")}, {}, {})
                  /\ UNCHANGED <<net, queries, web>>
             ELSE /\ net' = net \cup
                         {NetMsg("SymptomRoutingRequest", session_id, message, "", nq')}
                  /\ queries' = queries \cup
                         {[q |-> nq', mode |-> "rest", user |-> sender,
                           session_id |-> session_id, text |-> message]}
                  /\ web' = [ pc |-> "poll", session_id |-> session_id,
                              sender |-> sender, elapsed |-> 0, replies |-> 0 ]
                  /\ last' = Ran("handle_web_query", session_id, "routed", {},
                         {NetMsg("SymptomRoutingRequest", session_id, message, "", nq')},
                         {})
                  /\ UNCHANGED outbox
  /\ UNCHANGED <<config, awaiting, sinceSweep, kb>>

(***************************************************************************)
(* The poll loop (lines 630-659).  A turn is the sleep of wait_interval,   *)
(* the addition to elapsed and the test of response_ready; when the loop   *)
(* ends the timeout branch runs.  elapsed is local to the handler and no   *)
(* other handler reads it, so the handlers that run during the sleeps are  *)
(* let in every PollTurns turns: one step takes the turns up to the next   *)
(* such point.  The session table does not change within a step, so the    *)
(* first test of a step decides all of them.  The sleep that completes a   *)
(* minute advances the clock.                                              *)
(***************************************************************************)
\* a minute passes: every session is a minute older
Older(sessions) == [sid \in DOMAIN sessions |-> [sessions[sid] EXCEPT !.age = @ + 1]]
CanAge == \A sid \in DOMAIN active_sessions : active_sessions[sid].age < MaxAge

\* active_sessions.get(session_id, {}).get("response_ready")
ResponseReady(session_id) ==
  /\ session_id \in DOMAIN active_sessions
  /\ active_sessions[session_id].response_ready

\* variant of LoopContinues with the deadline included
LoopContinuesInclusive(elapsed) == elapsed <= max_wait

\* while elapsed < max_wait
LoopContinues(elapsed) == elapsed < max_wait

Min(a, b) == IF a < b THEN a ELSE b

web_poll ==
  /\ web.pc = "poll"
  /\ LET ready == ResponseReady(web.session_id)
         turns == IF ready THEN 1
                  ELSE Min(PollTurns, (max_wait - web.elapsed) \div wait_interval)
         elapsed == web.elapsed + turns * wait_interval
         minute == elapsed % HalfSecondsPerMinute = 0
         sid == web.session_id
         aged == IF minute THEN Older(active_sessions) ELSE active_sessions
     IN
     /\ minute => ~SweepDue /\ CanAge
     /\ sinceSweep' = IF minute THEN sinceSweep + 1 ELSE sinceSweep
     /\ IF ready
        THEN LET final == [active_sessions[sid].final_response[1]
                             EXCEPT !.to = web.sender]
             IN
             /\ active_sessions' = Del(aged, sid)
             /\ outbox' = outbox \cup {final}
             /\ web' = [IdleWeb EXCEPT !.elapsed = elapsed, !.replies = web.replies + 1]
             /\ last' = Ran("handle_web_query", sid, "success", {final}, {},
                            {[session_id |-> sid, session |-> active_sessions[sid]]})
        ELSE IF LoopContinues(elapsed)
        THEN /\ web' = [web EXCEPT !.elapsed = elapsed]
             /\ active_sessions' = aged
             /\ last' = Ran("web_poll", sid, "waiting", {}, {}, {})
             /\ UNCHANGED outbox
        ELSE LET timeout == UserMsg(web.sender, "WebQueryResponse", "timeout", NoId, "")
             IN
             /\ active_sessions' =
                  IF sid \in DOMAIN active_sessions THEN Del(aged, sid) ELSE aged
             /\ outbox' = outbox \cup {timeout}
             /\ web' = [IdleWeb EXCEPT !.elapsed = elapsed, !.replies = web.replies + 1]
             /\ last' = Ran("handle_web_query", sid, "timeout", {timeout}, {},
                            IF sid \in DOMAIN active_sessions
                            THEN {[session_id |-> sid, session |-> active_sessions[sid]]}
                            ELSE {})
  /\ UNCHANGED <<config, net, awaiting, nq, queries, kb>>

(***************************************************************************)
(* The collaborators.  The triage agent answers a routing request with one *)
(* of its three specialties (triage_fetch_agent.py); the specialist agent  *)
(* at the address of the request answers with its own specialty            *)
(* (dermatology_fetch_agent.py).  A request may stay unanswered for ever.  *)
(***************************************************************************)
\* route_symptoms on the sample texts (triage_knowledge.py lines 118-162):
\* "chest pain" yields the keyword chest_pain (cardiology-route 0.90),
\* "itchy skin" the keywords skin_lesion and itching (dermatology-route 0.92)
route_symptoms(symptoms) ==
  CASE symptoms = "chest pain" -> "cardiology"
    [] symptoms = "itchy skin" -> "dermatology"
    [] OTHER                   -> "cardiology"

\* variant of replies in which the exception path sends nothing
replies_unless_raised(raised, reply, fallback) == IF raised THEN {} ELSE {reply}

\* try: ...; await ctx.send(sender, reply); except Exception: await
\* ctx.send(sender, fallback) (triage_fetch_agent.py lines 62-126,
\* dermatology_fetch_agent.py lines 72-161): the messages sent when the
\* reasoning before the send raised, and when it did not
replies(raised, reply, fallback) == IF raised THEN {fallback} ELSE {reply}

\* handle_routing_request of the triage agent (triage_fetch_agent.py lines
\* 51-126); raised: the routing engine raised
handle_routing_request(msg, raised) ==
  /\ msg \in net
  /\ msg.type = "SymptomRoutingRequest"
  /\ LET sent == replies(raised,
                   NetMsg("SpecialtyRecommendation", msg.session_id, msg.symptoms,
                          route_symptoms(msg.symptoms), msg.q),
                   NetMsg("SpecialtyRecommendation", msg.session_id, msg.symptoms,
                          "cardiology", msg.q))
     IN /\ net' = (net \ {msg}) \cup sent
        /\ last' = Ran("handle_routing_request", msg.session_id,
                       IF raised THEN "fallback" ELSE "replied", {}, sent, {})
  /\ UNCHANGED <<config, active_sessions, outbox, awaiting, web, sinceSweep,
                 nq, queries, kb>>

\* handle_analysis_request of a specialist agent (dermatology_fetch_agent.py
\* lines 61-161); raised: the scoring engine or the making of the response
\* raised.  Both responses carry the agent's own specialty.
handle_analysis_request(msg, raised) ==
  /\ msg \in net
  /\ msg.type = "SpecialistAnalysisRequest"
  /\ LET sent == replies(raised,
                   NetMsg("SpecialistAnalysisResponse", msg.session_id, msg.symptoms,
                          msg.specialty, msg.q),
                   NetMsg("SpecialistAnalysisResponse", msg.session_id, msg.symptoms,
                          msg.specialty, msg.q))
     IN /\ net' = (net \ {msg}) \cup sent
        /\ last' = Ran("handle_analysis_request", msg.session_id,
                       IF raised THEN "fallback" ELSE "replied", {}, sent, {})
  /\ UNCHANGED <<config, active_sessions, outbox, awaiting, web, sinceSweep,
                 nq, queries, kb>>

(***************************************************************************)
(* The clock: a minute passes.  The interval task runs on schedule, so no  *)
(* minute passes while a sweep is due; while handle_web_query polls, its   *)
(* sleeps count the time.                                                  *)
(***************************************************************************)
Tick ==
  /\ ~SweepDue
  /\ CanAge
  /\ web.pc # "poll"
  /\ sinceSweep' = sinceSweep + 1
  /\ active_sessions' = Older(active_sessions)
  /\ last' = Ran("clock", NoId, "", {}, {}, {})
  /\ UNCHANGED <<config, net, outbox, awaiting, web, nq, queries, kb>>

(***************************************************************************)
(* cleanup_stale_sessions (lines 704-723)                                  *)
(***************************************************************************)
\* variant of IsStale that spares the sessions holding a specialist result
IsStaleUnanswered(session_data) ==
  /\ session_data.age > timeout_threshold
  /\ session_data.specialist_response = None

\* variant of IsStale that takes a session of exactly the threshold's age
IsStaleInclusive(session_data) == session_data.age >= timeout_threshold

\* current_time - session_time > timeout_threshold
IsStale(session_data) == session_data.age > timeout_threshold

\* variant of cleanup_stale_sessions that sweeps only routed sessions
cleanup_routed_sessions ==
  /\ SweepDue
  /\ LET stale_sessions ==
           {sid \in DOMAIN active_sessions :
              /\ IsStale(active_sessions[sid])
              /\ active_sessions[sid].triage_response # None}
     IN
     /\ active_sessions' =
           [sid \in (DOMAIN active_sessions) \ stale_sessions |-> active_sessions[sid]]
     /\ last' = Ran("cleanup_stale_sessions", NoId, "", {}, {},
                    {[session_id |-> sid, session |-> active_sessions[sid]] :
                       sid \in stale_sessions})
  /\ sinceSweep' = 0
  /\ UNCHANGED <<config, net, outbox, awaiting, web, nq, queries, kb>>

cleanup_stale_sessions ==
  /\ SweepDue
  /\ LET stale_sessions ==
           {sid \in DOMAIN active_sessions : IsStale(active_sessions[sid])}
     IN
     /\ active_sessions' =
           [sid \in (DOMAIN active_sessions) \ stale_sessions |-> active_sessions[sid]]
     /\ last' = Ran("cleanup_stale_sessions", NoId, "", {}, {},
                    {[session_id |-> sid, session |-> active_sessions[sid]] :
                       sid \in stale_sessions})
  /\ sinceSweep' = 0
  /\ UNCHANGED <<config, net, outbox, awaiting, web, nq, queries, kb>>

(***************************************************************************)
(* The coordinator and its collaborators.                                  *)
(***************************************************************************)
KbIdle == [ pc |-> "off" ]

Init ==
  /\ TRIAGE_AGENT_ADDRESS \in {"", "triage"}
  /\ specialist_map \in
       { [s \in Specialties |-> IF s \in C THEN s ELSE ""] :
           C \in {Specialties, {"cardiology"}} }
  /\ active_sessions = <<>>
  /\ net = {}
  /\ outbox = {}
  /\ awaiting = <<>>
  /\ web = IdleWeb
  /\ sinceSweep = 0
  /\ nq = 0
  /\ queries = {}
  /\ last = Ran("startup", NoId, "", {}, {}, {})
  /\ kb = KbIdle

Next ==
  \/ \E m \in Inbound, sid \in ChatIds : handle_chat_message(m[1], m[2], sid)
  \/ \E m \in Inbound : handle_bridge_chat(m[1], m[2])
  \/ \E m \in Inbound : handle_web_query(m[1], m[2])
  \/ web_poll
  \/ \E msg \in net : handle_triage_response(msg)
  \/ \E msg \in net : handle_specialist_response(msg)
  \/ \E sid \in DOMAIN awaiting : specialist_cleanup(sid)
  \/ \E msg \in net, raised \in BOOLEAN : handle_routing_request(msg, raised)
  \/ \E msg \in net, raised \in BOOLEAN : handle_analysis_request(msg, raised)
  \/ Tick
  \/ cleanup_stale_sessions

Spec == Init /\ [][Next]_vars

(***************************************************************************)
(* The cardiology scoring engine (cardiology_knowledge.py).  A query of    *)
(* the knowledge base, metta.run("!(match &self PATTERN TEMPLATE)"), gives *)
(* a list with one entry for the "!" expression, which is the list of the  *)
(* instantiated templates, one for every fact that matches.  Confidences,  *)
(* boosts and urgencies are in hundredths.                                 *)
(***************************************************************************)
Fact(key, value, score) == [key |-> key, value |-> value, score |-> score]

\* lines 39-59
symptom_cluster ==
  << Fact("chest_pain+radiating_pain+sweating", "myocardial_infarction", 85),
     Fact("palpitations+irregular_heartbeat", "arrhythmia", 75),
     Fact("shortness_of_breath+swelling+fatigue", "heart_failure", 70),
     Fact("chest_pain_sharp+positional", "pericarditis", 65),
     Fact("chest_pain+shortness_of_breath", "angina", 68),
     Fact("chest_pain_not_relieved", "myocardial_infarction", 80),
     Fact("chest_pain_sudden_tearing", "aortic_dissection", 90) >>

\* lines 36-38
symptom_indicates == << Fact("chest_pain_exertional", "angina", 70) >>

\* lines 62-79: factor, condition, boost
risk_amplifies ==
  << Fact("hypertension", "cardiac", 15),
     Fact("diabetes", "cardiac", 15),
     Fact("age_over_60", "cardiac", 12),
     Fact("smoking", "myocardial_infarction", 10),
     Fact("high_cholesterol", "cardiac", 10),
     Fact("family_history_cardiac", "cardiac", 8) >>

\* lines 82-99
urgency_level ==
  << Fact("chest_pain+radiating_pain+sweating", "", 95),
     Fact("chest_pain_sudden_tearing", "", 98),
     Fact("chest_pain+shortness_of_breath", "", 85),
     Fact("palpitations+dizziness+syncope", "", 80),
     Fact("chest_pain_exertional", "", 60),
     Fact("palpitations", "", 40) >>

\* lines 119-170: condition and action
recommendation ==
  << Fact("myocardial_infarction", "Call 911 immediately", 0),
     Fact("myocardial_infarction", "EKG immediately", 0),
     Fact("myocardial_infarction", "Troponin test", 0),
     Fact("myocardial_infarction", "Aspirin if available", 0),
     Fact("angina", "Urgent cardiology consultation within 24-48 hours", 0),
     Fact("angina", "Stress test recommended", 0),
     Fact("angina", "EKG recommended", 0),
     Fact("angina", "Avoid strenuous activity until consultation", 0),
     Fact("arrhythmia", "24-hour Holter monitor", 0),
     Fact("arrhythmia", "Electrophysiology consultation", 0),
     Fact("arrhythmia", "Avoid stimulants (caffeine, nicotine)", 0),
     Fact("heart_failure", "Echocardiogram", 0),
     Fact("heart_failure", "BNP blood test", 0),
     Fact("heart_failure", "Heart failure specialist referral", 0),
     Fact("aortic_dissection", "Call 911 - DO NOT DRIVE", 0),
     Fact("aortic_dissection", "Emergency CT angiography", 0) >>

\* the facts that match (KIND key $a $b), (urgency-level key $u) or
\* (recommendation key $action)
match_key(facts, key) == SelectSeq(facts, LAMBDA f : f.key = key)

\* the facts that match (risk-amplifies factor condition $boost)
match_risk(factor, condition) ==
  SelectSeq(risk_amplifies, LAMBDA f : Chars(f.key) = factor /\ f.value = condition)

\* the facts that match (risk-amplifies factor $cond $boost)
match_risk_any(factor) ==
  SelectSeq(risk_amplifies, LAMBDA f : Chars(f.key) = factor)

\* metta.run of one match query, given the facts that match: the list of
\* its one result list
run(matches) == << matches >>

\* word in symptoms_lower
Has(symptoms_lower, word) == IsSubstring(Chars(word), symptoms_lower)
HasAny(symptoms_lower, words) == \E word \in words : Has(symptoms_lower, word)

\* _normalize_symptoms (lines 244-289)
normalize_symptoms(symptoms) ==
  LET symptoms_lower == Lower(Chars(symptoms))
      chest == Has(symptoms_lower, "chest") \/ Has(symptoms_lower, "pain")
  IN
  IF HasAny(symptoms_lower, {"sudden", "severe", "tearing", "ripping"}) /\ chest
  THEN "chest_pain_sudden_tearing"
  ELSE IF /\ chest
          /\ HasAny(symptoms_lower, {"radiating", "arm", "jaw", "shoulder"})
          /\ HasAny(symptoms_lower, {"sweat", "sweating", "nausea"})
  THEN "chest_pain+radiating_pain+sweating"
  ELSE IF chest /\ HasAny(symptoms_lower, {"short", "breath", "breathing"})
  THEN "chest_pain+shortness_of_breath"
  ELSE IF HasAny(symptoms_lower, {"exercise", "exertion", "activity", "walking"}) /\ chest
  THEN "chest_pain_exertional"
  ELSE IF HasAny(symptoms_lower, {"palpitation", "racing", "irregular"})
  THEN IF HasAny(symptoms_lower, {"dizz", "faint", "syncope"})
       THEN "palpitations+dizziness+syncope"
       ELSE IF HasAny(symptoms_lower, {"irregular", "skip"})
       THEN "palpitations+irregular_heartbeat"
       ELSE "palpitations"
  ELSE IF /\ HasAny(symptoms_lower, {"short", "breath"})
          /\ HasAny(symptoms_lower, {"swell", "edema"})
          /\ HasAny(symptoms_lower, {"tired", "fatigue", "weak"})
  THEN "shortness_of_breath+swelling+fatigue"
  ELSE IF chest
  THEN "chest_pain+shortness_of_breath"
  ELSE "generic_cardiac_symptoms"

\* lines 303-309 and 315-320: result = results[0] is the list of the matches;
\* with two or more of them result[0] and result[1] are both "(condition
\* confidence)" expressions, which have no get_object: 0.50
first_result(results) ==
  IF Len(results) > 0 /\ Len(results[1]) >= 2
  THEN << [condition |-> "expression", confidence |-> 50] >>
  ELSE << >>

\* _query_condition (lines 291-323)
query_condition(symptom_key) ==
  LET cluster == first_result(run(match_key(symptom_cluster, symptom_key)))
      indicates == first_result(run(match_key(symptom_indicates, symptom_key)))
  IN
  IF cluster # << >> THEN cluster[1]
  ELSE IF indicates # << >> THEN indicates[1]
  ELSE [condition |-> "angina", confidence |-> 50]

\* factor.lower().replace(' ', '_').replace('-', '_')
factor_normalized(factor) ==
  LET lower == Lower(Chars(factor)) IN
  [i \in 1..Len(lower) |-> IF lower[i] \in {" ", "-"} THEN "_" ELSE lower[i]]

\* lines 342-346: the list the loop runs over.  An empty (or missing) list is
\* replaced by a new one; any other list is the caller's own, and the age
\* factor is appended to it
with_age(risk_factors, patient_age) ==
  IF patient_age >= 60 THEN Append(risk_factors, "age_over_60")
  ELSE IF patient_age >= 40 THEN Append(risk_factors, "age_over_40")
  ELSE risk_factors

\* what the caller's list holds after the call
caller_list(risk_factors, patient_age) ==
  IF risk_factors = << >> THEN << >> ELSE with_age(risk_factors, patient_age)

\* one turn of the loop of lines 348-371
risk_turn(acc, factor, condition) ==
  LET general == run(match_risk(factor_normalized(factor), "cardiac"))
      specific == run(match_risk(factor_normalized(factor), condition))
      a == IF Len(general) > 0 /\ Len(general[1]) > 0
           THEN [ total_boost |-> acc.total_boost + general[1][1].score,
                  identified_factors |-> Append(acc.identified_factors, factor) ]
           ELSE acc
  IN
  IF Len(specific) > 0 /\ Len(specific[1]) > 0
  THEN [ total_boost |-> a.total_boost + specific[1][1].score,
         identified_factors |->
           IF \E i \in 1..Len(a.identified_factors) : a.identified_factors[i] = factor
           THEN a.identified_factors
           ELSE Append(a.identified_factors, factor) ]
  ELSE a

RECURSIVE risk_loop(_, _, _)
risk_loop(acc, factors, condition) ==
  IF factors = << >> THEN acc
  ELSE risk_loop(risk_turn(acc, Head(factors), condition), Tail(factors), condition)

\* _calculate_risk_amplification (lines 325-373)
calculate_risk_amplification(condition, risk_factors, patient_age) ==
  risk_loop([total_boost |-> 0, identified_factors |-> << >>],
            with_age(risk_factors, patient_age), condition)

\* _query_urgency (lines 375-392)
query_urgency(symptom_key) ==
  LET results == run(match_key(urgency_level, symptom_key)) IN
  IF Len(results) > 0 /\ Len(results[1]) > 0 THEN results[1][1].score ELSE 70

\* _query_recommendations (lines 394-421): the loop runs over results, whose
\* one entry is the list of the matches; it takes the first of them
query_recommendations(condition) ==
  LET results == run(match_key(recommendation, condition))
      recommendations ==
        IF Len(results[1]) > 0 THEN << results[1][1].value >> ELSE << >>
  IN
  IF recommendations = << >>
  THEN << "Seek cardiology consultation", "Monitor symptoms closely",
          "Avoid strenuous activity until evaluated" >>
  ELSE recommendations

\* variant of Truthy that asks for a match in the result list
TruthyMatch(results) == Len(results) > 0 /\ Len(results[1]) > 0

\* the truth value of a list
Truthy(results) == Len(results) > 0

\* _count_matched_rules (lines 423-448)
count_matched_rules(symptom_key, risk_factors) ==
  LET One(results) == IF Truthy(results) THEN 1 ELSE 0
      factor_rules ==
        { i \in 1..Len(risk_factors) :
            Truthy(run(match_risk_any(factor_normalized(risk_factors[i])))) }
  IN
  One(run(match_key(symptom_cluster, symptom_key)))
    + One(run(match_key(symptom_indicates, symptom_key)))
    + One(run(match_key(urgency_level, symptom_key)))
    + Cardinality(factor_rules)

\* variant of Min100 without the cap
Uncapped(x) == x

Min100(x) == IF x < 100 THEN x ELSE 100

\* analyze_symptoms (lines 174-242); the reasoning text, which is written
\* from the other fields, is left out
analyze_symptoms(symptoms, patient_age, risk_factors) ==
  LET symptom_key == normalize_symptoms(symptoms)
      found == query_condition(symptom_key)
      risk == calculate_risk_amplification(found.condition, risk_factors, patient_age)
  IN
  [ condition |-> found.condition,
    confidence |-> Min100(found.confidence + risk.total_boost),
    urgency |-> query_urgency(symptom_key),
    risk_factors_identified |-> risk.identified_factors,
    matched_rules |-> count_matched_rules(symptom_key, risk.identified_factors),
    recommendations |-> query_recommendations(found.condition),
    base_confidence |-> found.confidence,
    risk_amplification |-> risk.total_boost ]

(***************************************************************************)
(* The triage routing engine (triage_knowledge.py).  Scores, urgencies and *)
(* boosts are in hundredths.  A dictionary is the sequence of its entries  *)
(* in the order of their insertion, which is the order Python iterates it. *)
(***************************************************************************)
\* lines 37-54: keyword, specialty of the "<specialty>-route" fact, score
specialty_route ==
  << Fact("chest_pain", "cardiology", 90),
     Fact("palpitations", "cardiology", 85),
     Fact("shortness_of_breath", "cardiology", 70),
     Fact("heart", "cardiology", 95),
     Fact("exertional", "cardiology", 88),
     Fact("headache", "neurology", 75),
     Fact("dizziness", "neurology", 70),
     Fact("seizure", "neurology", 95),
     Fact("numbness", "neurology", 80),
     Fact("weakness", "neurology", 75),
     Fact("vision_changes", "neurology", 65),
     Fact("rash", "dermatology", 90),
     Fact("skin_lesion", "dermatology", 92),
     Fact("itching", "dermatology", 75) >>

\* lines 57-62: the "<specialty>-combo" facts
specialty_combo ==
  << Fact("chest_pain+exertional", "cardiology", 92),
     Fact("chest_pain+shortness_of_breath", "cardiology", 94),
     Fact("dizziness+palpitations", "cardiology", 85),
     Fact("headache+vision_changes", "neurology", 88),
     Fact("numbness+weakness", "neurology", 92),
     Fact("rash+itching", "dermatology", 93) >>

\* lines 65-68
age_urgency_boost ==
  << Fact("age_over_60", "", 10), Fact("age_over_70", "", 15),
     Fact("age_over_50", "", 5), Fact("pediatric", "", 8) >>

\* lines 71-75
urgency_priority ==
  << Fact("chest_pain", "", 90), Fact("seizure", "", 98),
     Fact("numbness+weakness", "", 95), Fact("headache", "", 55),
     Fact("rash", "", 30) >>

\* lines 78-80
severity_modifier ==
  << Fact("sudden_onset", "", 15), Fact("severe_pain", "", 12),
     Fact("radiating_pain", "", 10) >>

Tag(tag, words) == [tag |-> tag, words |-> words]

\* _extract_symptom_keywords (lines 219-251): the tests, in their order
keyword_tests ==
  << Tag("chest_pain", {"chest", "pain", "hurt", "pressure", "tight"}),
     Tag("palpitations", {"palpitation", "racing", "flutter", "irregular", "skip"}),
     Tag("shortness_of_breath", {"breath", "breathing", "short", "dyspnea"}),
     Tag("heart", {"heart", "cardiac"}),
     Tag("exertional", {"exercise", "exertion", "activity", "walking", "stairs",
                        "exertional"}),
     Tag("headache", {"headache", "head", "migraine", "cephalalgia"}),
     Tag("dizziness", {"dizzy", "dizziness", "vertigo", "spinning", "lightheaded"}),
     Tag("seizure", {"seizure", "convulsion", "fit", "epilep"}),
     Tag("numbness", {"numb", "numbness", "tingling", "pins", "needles"}),
     Tag("weakness", {"weak", "weakness", "paralysis", "cant move"}),
     Tag("vision_changes", {"vision", "seeing", "sight", "blurry", "double"}),
     Tag("rash", {"rash", "spots", "hives", "eruption"}),
     Tag("skin_lesion", {"skin", "lesion", "mole", "growth", "bump"}),
     Tag("itching", {"itch", "itching", "itchy", "scratch"}) >>

RECURSIVE tags_present(_, _)
tags_present(tests, symptoms_lower) ==
  IF tests = << >> THEN << >>
  ELSE (IF HasAny(symptoms_lower, Head(tests).words)
        THEN << Head(tests).tag >> ELSE << >>)
         \o tags_present(Tail(tests), symptoms_lower)

\* _extract_symptom_keywords (lines 210-253), on the characters of the text
extract_symptom_keywords(symptoms) ==
  LET keywords == tags_present(keyword_tests, Lower(symptoms)) IN
  IF keywords = << >> THEN << "general" >> ELSE keywords

\* x in list
In(x, list) == \E i \in 1..Len(list) : list[i] = x

\* _detect_symptom_combinations (lines 255-279); "" stands for None
detect_symptom_combinations(keywords) ==
  IF In("chest_pain", keywords) /\ In("exertional", keywords)
  THEN "chest_pain+exertional"
  ELSE IF In("chest_pain", keywords) /\ In("shortness_of_breath", keywords)
  THEN "chest_pain+shortness_of_breath"
  ELSE IF In("dizziness", keywords) /\ In("palpitations", keywords)
  THEN "dizziness+palpitations"
  ELSE IF In("headache", keywords) /\ In("vision_changes", keywords)
  THEN "headache+vision_changes"
  ELSE IF In("numbness", keywords) /\ In("weakness", keywords)
  THEN "numbness+weakness"
  ELSE IF In("rash", keywords) /\ In("itching", keywords)
  THEN "rash+itching"
  ELSE ""

\* lines 290 and 310
specialties == << "cardiology", "neurology", "dermatology" >>

\* the loop body of lines 292-303 (and 312-323) for one specialty: the
\* query, and the first entry of its result list
specialty_match(facts, key, specialty) ==
  LET results == run(SelectSeq(facts, LAMBDA f : f.key = key /\ f.value = specialty))
  IN IF Len(results[1]) > 0
     THEN << [specialty |-> specialty, confidence |-> results[1][1].score] >>
     ELSE << >>

RECURSIVE specialty_matches(_, _, _)
specialty_matches(facts, key, list) ==
  IF list = << >> THEN << >>
  ELSE specialty_match(facts, key, Head(list))
         \o specialty_matches(facts, key, Tail(list))

\* _query_specialty_for_keyword (lines 281-305)
query_specialty_for_keyword(keyword) ==
  specialty_matches(specialty_route, keyword, specialties)

\* _query_symptom_combo (lines 307-325)
query_symptom_combo(combo_key) ==
  specialty_matches(specialty_combo, combo_key, specialties)

\* lines 129-131 and 139-141: specialty_scores[specialty].append(confidence)
add_score(specialty_scores, match) ==
  IF \E i \in 1..Len(specialty_scores) :
        specialty_scores[i].specialty = match.specialty
  THEN [i \in 1..Len(specialty_scores) |->
          IF specialty_scores[i].specialty = match.specialty
          THEN [specialty_scores[i] EXCEPT !.scores = Append(@, match.confidence)]
          ELSE specialty_scores[i]]
  ELSE Append(specialty_scores,
              [specialty |-> match.specialty, scores |-> << match.confidence >>])

RECURSIVE add_scores(_, _)
add_scores(specialty_scores, matches) ==
  IF matches = << >> THEN specialty_scores
  ELSE add_scores(add_score(specialty_scores, Head(matches)), Tail(matches))

\* lines 124-134: the loop over the keywords
RECURSIVE keyword_loop(_, _)
keyword_loop(acc, keywords) ==
  IF keywords = << >> THEN acc
  ELSE LET keyword == Head(keywords)
           results == query_specialty_for_keyword(keyword)
       IN keyword_loop(
            [ specialty_scores |-> add_scores(acc.specialty_scores, results),
              matched_keywords |->
                IF results # << >> /\ ~In(keyword, acc.matched_keywords)
                THEN Append(acc.matched_keywords, keyword)
                ELSE acc.matched_keywords,
              matched_rules |-> acc.matched_rules + Len(results) ],
            Tail(keywords))

\* variant of MaxOf that adds the scores up
RECURSIVE SumOf(_)
SumOf(scores) ==
  IF Len(scores) = 1 THEN scores[1]
  ELSE Head(scores) + SumOf(Tail(scores))

\* max(scores)
RECURSIVE MaxOf(_)
MaxOf(scores) ==
  IF Len(scores) = 1 THEN scores[1]
  ELSE LET rest == MaxOf(Tail(scores)) IN
       IF Head(scores) >= rest THEN Head(scores) ELSE rest

\* variant of first_max that takes the last entry with the greatest score
last_max(final_scores) ==
  LET top == MaxOf([i \in 1..Len(final_scores) |-> final_scores[i].score])
      i == CHOOSE k \in 1..Len(final_scores) :
             /\ final_scores[k].score = top
             /\ \A j \in (k + 1)..Len(final_scores) : final_scores[j].score < top
  IN final_scores[i].specialty

\* max(final_scores, key=final_scores.get): the first entry, in the order
\* of the dictionary, with the greatest score
first_max(final_scores) ==
  LET top == MaxOf([i \in 1..Len(final_scores) |-> final_scores[i].score])
      i == CHOOSE k \in 1..Len(final_scores) :
             /\ final_scores[k].score = top
             /\ \A j \in 1..(k - 1) : final_scores[j].score < top
  IN final_scores[i].specialty

\* the best urgency among the facts for a key (lines 372-376, 383-387)
urgency_of(max_urgency, key) ==
  LET results == run(match_key(urgency_priority, key)) IN
  IF Len(results[1]) > 0 /\ results[1][1].score > max_urgency
  THEN results[1][1].score ELSE max_urgency

RECURSIVE urgency_loop(_, _)
urgency_loop(max_urgency, keywords) ==
  IF keywords = << >> THEN max_urgency
  ELSE urgency_loop(urgency_of(max_urgency, Head(keywords)), Tail(keywords))

\* variant of query_route_urgency with the default 0
query_route_urgency_zero(symptom_keywords, combo_key) ==
  urgency_loop(IF combo_key # "" THEN urgency_of(0, combo_key) ELSE 0,
               symptom_keywords)

\* _query_urgency (lines 360-390) of the triage engine
query_route_urgency(symptom_keywords, combo_key) ==
  urgency_loop(IF combo_key # "" THEN urgency_of(50, combo_key) ELSE 50,
               symptom_keywords)

\* _apply_age_modifiers (lines 327-358), for an age that is given
apply_age_modifiers(patient_age) ==
  LET age_category ==
        IF patient_age >= 70 THEN "age_over_70"
        ELSE IF patient_age >= 60 THEN "age_over_60"
        ELSE IF patient_age >= 50 THEN "age_over_50"
        ELSE IF patient_age < 18 THEN "pediatric"
        ELSE ""
      results == run(match_key(age_urgency_boost, age_category))
  IN IF age_category # "" /\ Len(results[1]) > 0
     THEN [total_boost |-> results[1][1].score, rules_fired |-> 1]
     ELSE [total_boost |-> 0, rules_fired |-> 0]

\* lines 397-401
modifiers ==
  << Tag("sudden_onset", {"sudden", "suddenly", "acute", "came on"}),
     Tag("severe_pain", {"severe", "terrible", "worst", "unbearable", "excruciating"}),
     Tag("radiating_pain", {"radiating", "spreading", "shoots", "travels"}) >>

RECURSIVE severity_loop(_, _)
severity_loop(list, symptoms_lower) ==
  IF list = << >> THEN 0
  ELSE LET results == run(match_key(severity_modifier, Head(list).tag)) IN
       (IF HasAny(symptoms_lower, Head(list).words) /\ Len(results[1]) > 0
        THEN results[1][1].score ELSE 0)
         + severity_loop(Tail(list), symptoms_lower)

\* _detect_severity_modifiers (lines 392-413)
detect_severity_modifiers(symptoms) == severity_loop(modifiers, Lower(symptoms))

\* variant of second_best whose sort puts the later of two equal scores first
second_best_reversed(final_scores) ==
  LET Rank(i) == 1 + Cardinality({ j \in 1..Len(final_scores) :
                       \/ final_scores[j].score > final_scores[i].score
                       \/ /\ final_scores[j].score = final_scores[i].score
                          /\ j > i })
      second == CHOOSE i \in 1..Len(final_scores) : Rank(i) = 2
  IN IF Len(final_scores) > 1 /\ final_scores[second].score >= 60
     THEN final_scores[second].specialty ELSE ""

\* lines 178-183: sorted(final_scores.items(), key=score, reverse=True)[1],
\* the sort being stable; "" stands for None
second_best(final_scores) ==
  LET Rank(i) == 1 + Cardinality({ j \in 1..Len(final_scores) :
                       \/ final_scores[j].score > final_scores[i].score
                       \/ /\ final_scores[j].score = final_scores[i].score
                          /\ j < i })
      second == CHOOSE i \in 1..Len(final_scores) : Rank(i) = 2
  IN IF Len(final_scores) > 1 /\ final_scores[second].score >= 60
     THEN final_scores[second].specialty ELSE ""

\* route_symptoms (lines 84-208), on the characters of the text; the age 0
\* stands for an age that is not given; the reasoning text is left out
route(symptoms, patient_age) ==
  LET symptom_keywords == extract_symptom_keywords(symptoms)
      combo_key == detect_symptom_combinations(symptom_keywords)
      by_keyword == keyword_loop([ specialty_scores |-> << >>,
                                   matched_keywords |-> << >>,
                                   matched_rules |-> 0 ], symptom_keywords)
      combo_results == IF combo_key # "" THEN query_symptom_combo(combo_key) ELSE << >>
      specialty_scores == add_scores(by_keyword.specialty_scores, combo_results)
      final_scores == [i \in 1..Len(specialty_scores) |->
                         [ specialty |-> specialty_scores[i].specialty,
                           score |-> MaxOf(specialty_scores[i].scores) ]]
      recommended_specialty ==
        IF final_scores # << >> THEN first_max(final_scores) ELSE "cardiology"
      confidence ==
        IF final_scores # << >>
        THEN MaxOf([i \in 1..Len(final_scores) |-> final_scores[i].score])
        ELSE 50
      age == IF patient_age # 0 THEN apply_age_modifiers(patient_age)
             ELSE [total_boost |-> 0, rules_fired |-> 0]
      urgency == Min100(Min100(query_route_urgency(symptom_keywords, combo_key)
                                 + age.total_boost)
                          + detect_severity_modifiers(symptoms))
  IN
  [ recommended_specialty |-> recommended_specialty,
    confidence |-> confidence,
    urgency |-> urgency,
    matched_keywords |-> IF by_keyword.matched_keywords # << >>
                         THEN by_keyword.matched_keywords ELSE symptom_keywords,
    matched_rules |-> by_keyword.matched_rules + Len(combo_results) + age.rules_fired,
    all_specialty_scores |-> final_scores,
    secondary_specialty |-> second_best(final_scores) ]

(***************************************************************************)
(* The agents over the engines (cardiology_agent.py, triage_agent.py).     *)
(* An agent calls its engine inside try ... except Exception; a lookup of  *)
(* the engine that raises ends the engine's call at that lookup.  Scores   *)
(* are in hundredths.                                                      *)
(***************************************************************************)
\* _urgency_to_risk_level (cardiology_agent.py lines 143-152, and the same
\* in triage_agent.py lines 144-153)
urgency_to_risk_level(urgency_score) ==
  IF urgency_score >= 90 THEN "critical"
  ELSE IF urgency_score >= 75 THEN "high"
  ELSE IF urgency_score >= 50 THEN "moderate"
  ELSE "low"

\* what a call leaves when its exception is not caught
Raised ==
  [ raised |-> TRUE, confidence_score |-> 0, risk_level |-> "",
    recommendations |-> << >>, specialty |-> "" ]

\* AgentAnalysis (api/models.py lines 61-72), with the specialty that the
\* triage agent returns beside it ("" for the cardiology agent)
AgentAnalysis(confidence_score, risk_level, recommendations, specialty) ==
  [ raised |-> FALSE, confidence_score |-> confidence_score,
    risk_level |-> risk_level, recommendations |-> recommendations,
    specialty |-> specialty ]

\* CardiologyAgent._fallback_analysis (lines 190-204)
fallback_analysis ==
  AgentAnalysis(50, "moderate",
                << "Seek cardiology consultation", "Monitor symptoms closely",
                   "Avoid strenuous activity until evaluated" >>, "")

\* TriageAgent._fallback_analysis (lines 204-217) and the specialty returned
\* with it (line 114)
triage_fallback_analysis ==
  AgentAnalysis(50, "moderate",
                << "Route to Cardiology specialist (default)",
                   "Await specialist assessment" >>, "cardiology")

\* variant of try_except in which the exception leaves the method
try_only(raised, returned, fallback) == IF raised THEN Raised ELSE returned

\* try: ... return ...; except Exception: return fallback
\* (cardiology_agent.py lines 55-107, triage_agent.py lines 55-114)
try_except(raised, returned, fallback) == IF raised THEN fallback ELSE returned

\* the lookups of analyze_symptoms at which a failure is injected: the first
\* one, and one after the risk factors were gone through
Faults == {"none", "_query_condition", "_query_urgency"}

\* _generate_recommendations (triage_agent.py lines 155-180)
generate_recommendations(specialty, urgency, secondary_specialty) ==
  << "Route to specialist" >>
    \o << IF urgency >= 90 THEN "HIGH PRIORITY: Immediate consultation recommended"
          ELSE IF urgency >= 75 THEN "Urgent consultation within 24-48 hours"
          ELSE "Schedule consultation at earliest convenience" >>
    \o (IF secondary_specialty # "" THEN << "Consider secondary consultation" >>
        ELSE << >>)
    \o << "Await specialist assessment for detailed evaluation" >>

(***************************************************************************)
(* The callers of the reasoning layer.  One holds a symptom text, an age   *)
(* and a list of risk factors, and calls the cardiology engine or the      *)
(* cardiology agent with them; the other holds a text and an age and calls *)
(* the triage engine or the triage agent.  Both keep what was returned.    *)
(* The text of the second is held as the list of its words.                *)
(***************************************************************************)
KbTexts ==
  { "severe chest pain when I exercise and shortness of breath",
    "chest pain and short of breath", "pain when walking", "chest pain",
    "heart racing and dizzy", "swollen ankle" }

\* 0 stands for an age that is not given (None)
Ages == {0, 45, 65}

Factors ==
  {"hypertension", "diabetes", "Smoking", "High-Cholesterol", "family history cardiac"}

FactorLists == UNION { [1..n -> Factors] : n \in 0..MaxFactors }

\* the words and phrases the texts given to the triage engine are written with
Vocabulary ==
  << "chest", "pain when walking", "heart", "Seizure", "numb and weak", "rash",
     "skin", "nausea", "sudden" >>

\* the characters of the words, with a space between two words
RECURSIVE JoinWords(_)
JoinWords(words) ==
  IF words = << >> THEN << >>
  ELSE IF Len(words) = 1 THEN Chars(words[1])
  ELSE Chars(words[1]) \o << " " >> \o JoinWords(Tail(words))

\* the texts, each as the list of its words
TriageTexts ==
  { SelectSeq(Vocabulary, LAMBDA w : w \in chosen) :
      chosen \in { S \in SUBSET { Vocabulary[i] : i \in 1..Len(Vocabulary) } :
                     Cardinality(S) <= MaxWords } }

TriageAges == {0, 12, 65}

analyze_call ==
  /\ kb.pc = "ready"
  /\ Len(kb.results) < MaxCalls
  /\ kb' = [kb EXCEPT
              !.results = Append(@, analyze_symptoms(kb.symptoms, kb.patient_age,
                                                     kb.risk_factors)),
              !.risk_factors = caller_list(kb.risk_factors, kb.patient_age)]
  /\ UNCHANGED coordVars

\* the AgentAnalysis made of the engine's result (cardiology_agent.py
\* lines 62-102), the texts left out
cardiology_analysis(metta_result) ==
  AgentAnalysis(metta_result.confidence, urgency_to_risk_level(metta_result.urgency),
                metta_result.recommendations, "")

\* CardiologyAgent.analyze (lines 34-107)
CardiologyAgent_analyze ==
  /\ kb.pc = "ready"
  /\ Len(kb.analyses) < MaxAgentCalls
  /\ \E fault \in Faults :
       kb' = [kb EXCEPT
                !.analyses = Append(@,
                   [ fault |-> fault,
                     returned |->
                       try_except(fault # "none",
                                  cardiology_analysis(
                                    analyze_symptoms(kb.symptoms, kb.patient_age,
                                                     kb.risk_factors)),
                                  fallback_analysis) ]),
                !.risk_factors = IF fault = "_query_condition" THEN @
                                 ELSE caller_list(@, kb.patient_age)]
  /\ UNCHANGED coordVars

\* a call of TriageKnowledge.route_symptoms
route_call ==
  /\ kb.pc = "triage"
  /\ Len(kb.routes) < MaxCalls
  /\ kb' = [kb EXCEPT !.routes = Append(@, route(JoinWords(kb.words), kb.patient_age))]
  /\ UNCHANGED coordVars

\* the AgentAnalysis made of the engine's result and the specialty returned
\* with it (triage_agent.py lines 62-109), the texts left out
triage_analysis(metta_result) ==
  AgentAnalysis(metta_result.confidence, urgency_to_risk_level(metta_result.urgency),
                generate_recommendations(metta_result.recommended_specialty,
                                         metta_result.urgency,
                                         metta_result.secondary_specialty),
                metta_result.recommended_specialty)

\* TriageAgent.analyze (lines 35-114)
TriageAgent_analyze ==
  /\ kb.pc = "triage"
  /\ Len(kb.analyses) < MaxAgentCalls
  /\ \E fault \in {"none", "_query_specialty_for_keyword"} :
       kb' = [kb EXCEPT
                !.analyses = Append(@,
                   [ fault |-> fault,
                     returned |->
                       try_except(fault # "none",
                                  triage_analysis(route(JoinWords(kb.words),
                                                        kb.patient_age)),
                                  triage_fallback_analysis) ])]
  /\ UNCHANGED coordVars

(***************************************************************************)
(* The risk amplification of the neurology engine (neurology_knowledge.py). *)
(***************************************************************************)
\* neurology_knowledge.py lines 77-103: (risk-amplifies factor condition boost)
neurology_risk_amplifies ==
  << Fact("hypertension", "stroke", 18),
     Fact("diabetes", "stroke", 15),
     Fact("diabetes", "peripheral_neuropathy", 20),
     Fact("age_over_60", "stroke", 15),
     Fact("age_over_70", "dementia", 18),
     Fact("smoking", "stroke", 12),
     Fact("atrial_fibrillation", "stroke", 20),
     Fact("family_history_epilepsy", "epilepsy", 10),
     Fact("head_injury_history", "epilepsy", 15) >>

\* the facts that match (risk-amplifies factor condition $boost)
neurology_match_risk(factor, condition) ==
  SelectSeq(neurology_risk_amplifies,
            LAMBDA f : Chars(f.key) = factor /\ f.value = condition)

\* lines 450-454: the age factor appended to the list
neurology_with_age(risk_factors, patient_age) ==
  IF patient_age >= 70 THEN Append(risk_factors, "age_over_70")
  ELSE IF patient_age >= 60 THEN Append(risk_factors, "age_over_60")
  ELSE risk_factors

\* one turn of the loop of lines 456-466
neurology_risk_turn(acc, factor, condition) ==
  LET results == run(neurology_match_risk(factor_normalized(factor), condition))
  IN IF Len(results) > 0 /\ Len(results[1]) > 0
     THEN [ total_boost |-> acc.total_boost + results[1][1].score,
            identified_factors |-> Append(acc.identified_factors, factor) ]
     ELSE acc

RECURSIVE neurology_risk_loop(_, _, _)
neurology_risk_loop(acc, factors, condition) ==
  IF factors = << >> THEN acc
  ELSE neurology_risk_loop(neurology_risk_turn(acc, Head(factors), condition),
                           Tail(factors), condition)

\* NeurologyKnowledge._calculate_risk_amplification (lines 431-468)
neurology_calculate_risk_amplification(condition, risk_factors, patient_age) ==
  neurology_risk_loop([total_boost |-> 0, identified_factors |-> << >>],
                      neurology_with_age(risk_factors, patient_age), condition)

\* the conditions, ages and factor lists given to the neurology engine
NeurologyConditions == {"stroke", "dementia", "epilepsy", "migraine"}

NeurologyAges == {0, 45, 65, 75}

NeurologyFactors == {"hypertension", "Smoking", "head injury history"}

NeurologyFactorLists == UNION { [1..n -> NeurologyFactors] : n \in 0..MaxFactors }

\* a caller of the neurology engine computes the risk amplification; a list
\* that is not empty is the caller's own and keeps the appended age factor
neurology_risk_call ==
  /\ kb.pc = "neurology"
  /\ Len(kb.boosts) < MaxCalls
  /\ kb' = [kb EXCEPT
              !.boosts = Append(@, neurology_calculate_risk_amplification(
                                      kb.condition, kb.risk_factors, kb.patient_age)),
              !.risk_factors = IF kb.risk_factors = << >> THEN << >>
                               ELSE neurology_with_age(kb.risk_factors,
                                                       kb.patient_age)]
  /\ UNCHANGED coordVars

InitKB ==
  /\ TRIAGE_AGENT_ADDRESS = "triage"
  /\ specialist_map = [s \in Specialties |-> s]
  /\ active_sessions = <<>>
  /\ net = {}
  /\ outbox = {}
  /\ awaiting = <<>>
  /\ web = IdleWeb
  /\ sinceSweep = 0
  /\ nq = 0
  /\ queries = {}
  /\ last = Ran("startup", NoId, "", {}, {}, {})
  /\ kb \in { [ pc |-> "ready", symptoms |-> t, words |-> << >>, patient_age |-> a,
                passed |-> l, risk_factors |-> l, results |-> << >>,
                routes |-> << >>, analyses |-> << >> ] :
              t \in KbTexts, a \in Ages, l \in FactorLists }
        \cup
          { [ pc |-> "triage", symptoms |-> "", words |-> t, patient_age |-> a,
              passed |-> << >>, risk_factors |-> << >>, results |-> << >>,
              routes |-> << >>, analyses |-> << >> ] :
            t \in TriageTexts, a \in TriageAges }
        \cup
          { [ pc |-> "neurology", symptoms |-> "", words |-> << >>,
              condition |-> c, patient_age |-> a,
              passed |-> l, risk_factors |-> l, results |-> << >>,
              routes |-> << >>, analyses |-> << >>, boosts |-> << >> ] :
            c \in NeurologyConditions, a \in NeurologyAges,
            l \in NeurologyFactorLists }

NextKB ==
  \/ analyze_call
  \/ CardiologyAgent_analyze
  \/ route_call
  \/ TriageAgent_analyze
  \/ neurology_risk_call

SpecKB == InitKB /\ [][NextKB]_vars

(***************************************************************************)
(* Properties of the coordinator.                                          *)
(***************************************************************************)
Swept == last.op = "cleanup_stale_sessions"

\* C1: after a run of cleanup_stale_sessions no session older than the TTL
\* is in the table, whatever step it had reached and whatever its mode.
SweepRemovesStale ==
  Swept => \A sid \in DOMAIN active_sessions :
              active_sessions[sid].age <= timeout_threshold

\* a sweep has removed a poll-mode or bridge-mode session holding a triage
\* result and a session holding a specialist result
SweepRemovedAnswered ==
  /\ Swept
  /\ \E r \in last.removed : r.session.specialist_response # None
  /\ \E r \in last.removed :
        /\ r.session.triage_response # None
        /\ DeliveryMode(r.session) # "push"

\* C2: a session that holds no specialist result is never 2 x TTL old: it
\* has left the table before, routed or not and in every mode.
UnansweredGoneBy2TTL ==
  \A sid \in DOMAIN active_sessions :
     active_sessions[sid].specialist_response = None
        => active_sessions[sid].age < 2 * timeout_threshold

\* a sweep has removed a session that was never routed and never answered,
\* at the greatest age a session reaches
SweepRemovedUnanswered ==
  /\ Swept
  /\ \E r \in last.removed :
        /\ r.session.specialist_response = None
        /\ r.session.triage_response = None
        /\ r.session.age = timeout_threshold + cleanup_period

\* C3: when a handler has answered with an error (no triage address, or no
\* address for the specialty), the table holds no entry for the session id.
ErrorDestroysSession ==
  last.outcome = "error" => last.session_id \notin DOMAIN active_sessions

\* C4: a triage response for a known session always leads to a specialist
\* request and never to an error response.
UnmappedFallsBack ==
  (last.op = "handle_triage_response" /\ last.outcome # "not_found")
     => /\ \E m \in last.toNet : m.type = "SpecialistAnalysisRequest"
        /\ last.toUser = {}

\* C5: when the poll deadline ends a session the timeout response goes out,
\* and every session the sweep removes has had a timeout response sent to
\* its user.
TimeoutIsAnswered ==
  /\ last.outcome = "timeout" => \E m \in last.toUser : m.kind = "timeout"
  /\ Swept => \A r \in last.removed :
                 \E m \in outbox : m.kind = "timeout" /\ m.to = r.session.user

InFlight(sid) ==
  \/ \E m \in net : m.session_id = sid
  \/ sid \in DOMAIN awaiting
  \/ web.pc = "poll" /\ web.session_id = sid

\* C6: a session carries at most one of the two mode flags, and the mode of
\* a session id does not change while a query for it is in flight.
ModeIsFixed ==
  [][ \A sid \in DOMAIN active_sessions :
        /\ ~(active_sessions[sid].bridge_mode /\ active_sessions[sid].rest_mode)
        /\ (InFlight(sid) /\ sid \in DOMAIN active_sessions')
              => DeliveryMode(active_sessions'[sid]) = DeliveryMode(active_sessions[sid])
    ]_vars

Configured ==
  /\ TRIAGE_AGENT_ADDRESS # ""
  /\ \A s \in Specialties : specialist_map[s] # ""

Quiescent == net = {} /\ awaiting = <<>> /\ web.pc = "idle"

\* C7: with every endpoint configured and every request answered, once the
\* final response for a chat query's session id has gone out and nothing is
\* in flight, the caller of the query has received the final response on
\* its symptoms and the session is gone.
ChatQueryAnswered ==
  (Configured /\ Quiescent)
     => \A c \in queries :
          (/\ c.mode = "push"
           /\ \E m \in outbox : m.kind = "final" /\ m.session_id = c.session_id)
             => /\ \E m \in outbox :
                     /\ m.kind = "final" /\ m.session_id = c.session_id
                     /\ m.to = c.user /\ m.text = c.text
                /\ c.session_id \notin DOMAIN active_sessions

WebReturned == last.op = "handle_web_query" /\ last.outcome \in {"success", "timeout"}

\* C8: the poll loop ends at the deadline at the latest; when handle_web_query
\* returns it has sent exactly one WebQueryResponse, the final response if
\* response_ready was seen and the timeout response at the deadline otherwise,
\* and the session id is not in the table.
PollModeReply ==
  /\ web.pc = "poll" => web.elapsed < max_wait /\ web.replies = 0
  /\ last.op = "web_poll" => last.toUser = {}
  /\ WebReturned =>
       /\ web.pc = "idle"
       /\ web.replies = 1
       /\ Cardinality(last.toUser) = 1
       /\ \A m \in last.toUser :
             /\ m.type = "WebQueryResponse"
             /\ m.to = web.sender \/ web.sender = ""
             /\ m.kind = IF last.outcome = "success" THEN "final" ELSE "timeout"
       /\ last.session_id \notin DOMAIN active_sessions
       /\ web.elapsed <= max_wait
       /\ last.outcome = "timeout" => web.elapsed = max_wait
       /\ last.outcome = "success" =>
             \A r \in last.removed : r.session.response_ready

\* handle_web_query has returned the final response
WebSucceeded == WebReturned /\ last.outcome = "success"

\* handle_web_query has returned the timeout response
WebTimedOut == WebReturned /\ last.outcome = "timeout" /\ last.removed # {}

\* C9: a triage or specialist response for a session id that is not in the
\* table sends nothing and leaves the table as it is.
LateResponseDropped ==
  [][ last'.outcome = "not_found"
        => /\ active_sessions' = active_sessions
           /\ outbox' = outbox
           /\ awaiting' = awaiting
           /\ net' \subseteq net
           /\ last'.toUser = {} /\ last'.toNet = {}
    ]_vars

\* a specialist response has arrived for a session that is gone
LateSpecialistResponse ==
  /\ last.op = "handle_specialist_response"
  /\ last.outcome = "not_found"
  /\ ~SessionKnown(last.session_id)

(***************************************************************************)
(* Properties of the scoring engine.                                       *)
(***************************************************************************)
\* C10: two calls of analyze_symptoms with the same symptoms, the same age
\* and the same list of risk factors give the same result, and the caller's
\* list is after the calls what it was before them.
AnalyzeIdempotent ==
  Len(kb.results) = MaxCalls
     => /\ \A i \in 1..MaxCalls : kb.results[i] = kb.results[1]
        /\ kb.risk_factors = kb.passed

Calls == IF kb.pc = "ready" THEN 1..Len(kb.results) ELSE {}

BoostOf(factor, condition) ==
  LET general == match_risk(factor_normalized(factor), "cardiac")
      specific == match_risk(factor_normalized(factor), condition)
  IN (IF general = << >> THEN 0 ELSE general[1].score)
       + (IF specific = << >> THEN 0 ELSE specific[1].score)

RECURSIVE SumBoosts(_, _)
SumBoosts(factors, condition) ==
  IF factors = << >> THEN 0
  ELSE BoostOf(Head(factors), condition) + SumBoosts(Tail(factors), condition)

\* C12: the final confidence is min(1.0, base confidence + sum of the boosts
\* of the risk factors found), so it is at most 1.0 and at least the base.
ConfidenceIsCappedSum ==
  \A i \in Calls :
     LET r == kb.results[i]
         boosts == SumBoosts(r.risk_factors_identified, r.condition)
     IN /\ r.risk_amplification = boosts
        /\ r.confidence = IF r.base_confidence + boosts < 100
                          THEN r.base_confidence + boosts ELSE 100
        /\ r.confidence <= 100
        /\ r.confidence >= r.base_confidence

\* an analysis whose base confidence and boosts add up to more than 1.0
ConfidenceCapped ==
  \E i \in Calls :
     /\ kb.results[i].base_confidence + kb.results[i].risk_amplification > 100
     /\ kb.results[i].confidence = 100

\* C13: the text "severe chest pain when I exercise and shortness of breath"
\* is normalized to chest_pain+shortness_of_breath and analysed as angina
\* with base confidence 0.68 and urgency 0.85.
SampleIsAngina68 ==
  (Calls # {}
     /\ kb.symptoms = "severe chest pain when I exercise and shortness of breath")
    => /\ normalize_symptoms(kb.symptoms) = "chest_pain+shortness_of_breath"
       /\ kb.results[1].condition = "angina"
       /\ kb.results[1].base_confidence = 68
       /\ kb.results[1].urgency = 85

\* C16: for the key of angina, the risk factors hypertension and diabetes
\* and the age 45 give a boost of 0.30 and a final confidence of 0.98.
AnginaBoostedTo98 ==
  (/\ Calls # {}
   /\ normalize_symptoms(kb.symptoms) = "chest_pain+shortness_of_breath"
   /\ kb.passed = <<"hypertension", "diabetes">>
   /\ kb.patient_age = 45)
    => /\ kb.results[1].condition = "angina"
       /\ kb.results[1].risk_amplification = 30
       /\ kb.results[1].base_confidence = 68
       /\ kb.results[1].confidence = 98

(***************************************************************************)
(* Properties of the triage routing engine and of the agents.              *)
(***************************************************************************)
RouteCalls == IF kb.pc = "triage" THEN 1..Len(kb.routes) ELSE {}

\* the specialties that share the greatest score of a routing result
Tied(r) ==
  { r.all_specialty_scores[i].specialty :
      i \in { k \in 1..Len(r.all_specialty_scores) :
                \A j \in 1..Len(r.all_specialty_scores) :
                   r.all_specialty_scores[j].score <= r.all_specialty_scores[k].score } }

\* the specialty of a set that comes first in cardiology, neurology, dermatology
Earliest(S) ==
  IF "cardiology" \in S THEN "cardiology"
  ELSE IF "neurology" \in S THEN "neurology"
  ELSE "dermatology"

\* C14: when two or more specialties share the top score, route() recommends
\* the one earliest in [cardiology, neurology, dermatology], and a second
\* call with the same input recommends the same specialty.
TieBreakByPriority ==
  /\ \A i \in RouteCalls :
        Cardinality(Tied(kb.routes[i])) >= 2
          => kb.routes[i].recommended_specialty = Earliest(Tied(kb.routes[i]))
  /\ \A i, j \in RouteCalls :
        kb.routes[i].recommended_specialty = kb.routes[j].recommended_specialty

\* two calls made on a text for which neurology and dermatology, or all
\* three specialties, share the top score
TiedTwice ==
  /\ Len(kb.routes) = MaxCalls
  /\ kb.pc = "triage"
  /\ \/ Tied(kb.routes[1]) = {"neurology", "dermatology"}
     \/ Tied(kb.routes[1]) = {"cardiology", "neurology", "dermatology"}

\* a text in which _extract_symptom_keywords finds no tag
Untagged == extract_symptom_keywords(JoinWords(kb.words)) = << "general" >>

\* a text with none of the words of _detect_severity_modifiers
NoSeverityWord ==
  ~HasAny(Lower(JoinWords(kb.words)),
          { "sudden", "suddenly", "acute", "came on", "severe", "terrible", "worst",
            "unbearable", "excruciating", "radiating", "spreading", "shoots",
            "travels" })

AgentCalls == IF kb.pc \in {"ready", "triage"} THEN 1..Len(kb.analyses) ELSE {}

FinalResponseHasTriage ==
  last.op = "handle_specialist_response"
    => last.outcome \in {"not_found", "stored", "sent"}

\* C19: the entry of a session id keeps a triage result and a specialist
\* result once it holds them, and holds a specialist result only when it
\* holds a triage result.
StepsInOrder ==
  [][ \A sid \in DOMAIN active_sessions' :
        /\ active_sessions'[sid].specialist_response # None
             => active_sessions'[sid].triage_response # None
        /\ sid \in DOMAIN active_sessions =>
             /\ active_sessions[sid].triage_response # None
                  => active_sessions'[sid].triage_response # None
             /\ active_sessions[sid].specialist_response # None
                  => active_sessions'[sid].specialist_response # None
    ]_vars

\* C20: the deletion after the await of handle_specialist_response always
\* finds the entry of its session.
DeletionFindsEntry ==
  last.op = "specialist_cleanup" => last.outcome = "deleted"

\* C21: every final response went to the sender of a query, and reports on
\* the symptoms that sender submitted in a query.
FinalGoesToItsCaller ==
  \A m \in outbox :
     m.kind = "final" => \E c \in queries : c.user = m.to /\ c.text = m.text

\* the steps of the message handlers: the three inbound handlers up to their
\* return or first wait, the two response handlers, and the deletion that
\* ends handle_specialist_response
HandlerStep(ran) ==
  \/ ran.op \in {"handle_chat_message", "handle_bridge_chat", "handle_triage_response",
                 "handle_specialist_response", "specialist_cleanup"}
  \/ ran.op = "handle_web_query" /\ ran.outcome \in {"routed", "greeting", "error"}

\* C22: a handler that runs for one session id leaves the entries of all
\* other ids as they are, sends requests only under its own id and, when it
\* handles a response, sends user messages only to the user of its session.
OtherSessionsUntouched ==
  [][ HandlerStep(last') =>
        /\ \A sid \in DOMAIN active_sessions :
              sid # last'.session_id
                => /\ sid \in DOMAIN active_sessions'
                   /\ active_sessions'[sid] = active_sessions[sid]
        /\ \A sid \in DOMAIN active_sessions' :
              sid # last'.session_id => sid \in DOMAIN active_sessions
        /\ \A m \in last'.toNet : m.session_id = last'.session_id
        /\ (last'.op \in {"handle_triage_response", "handle_specialist_response"}
              /\ last'.session_id \in DOMAIN active_sessions)
             => \A m \in last'.toUser :
                   m.to = active_sessions[last'.session_id].user
    ]_vars

\* a specialist response was handled and answered while a session with
\* another id was in the table
HandledBesideAnother ==
  /\ last.op = "handle_specialist_response"
  /\ last.outcome = "sent"
  /\ \E sid \in DOMAIN active_sessions :
        sid # last.session_id /\ active_sessions[sid].triage_response # None

\* the type of the reply to a request of the coordinator
ReplyType(type) ==
  IF type = "SymptomRoutingRequest" THEN "SpecialtyRecommendation"
  ELSE "SpecialistAnalysisResponse"

\* C23: a collaborator that handles a request takes it off the network and
\* sends exactly one reply, of the reply type of the request and with the
\* session id of the request, whether its reasoning raised or not.
OneReplyPerRequest ==
  [][ last'.op \in {"handle_routing_request", "handle_analysis_request"} =>
        \E req \in net :
           /\ req.type = IF last'.op = "handle_routing_request"
                         THEN "SymptomRoutingRequest"
                         ELSE "SpecialistAnalysisRequest"
           /\ req \notin net'
           /\ net' = (net \ {req}) \cup last'.toNet
           /\ last'.toNet \cap net = {}
           /\ Cardinality(last'.toNet) = 1
           /\ \A m \in last'.toNet :
                 /\ m.type = ReplyType(req.type)
                 /\ m.session_id = req.session_id
                 /\ m.q = req.q
    ]_vars

\* the triage agent has answered a request on its exception path with a
\* specialty other than the one its engine gives
FallbackReplied ==
  /\ last.op = "handle_routing_request"
  /\ last.outcome = "fallback"
  /\ \E m \in last.toNet : m.specialty # route_symptoms(m.symptoms)

\* the two tags a combination key of the triage engine is made of
ComboTags(key) ==
  CASE key = "chest_pain+exertional" -> {"chest_pain", "exertional"}
    [] key = "chest_pain+shortness_of_breath" -> {"chest_pain", "shortness_of_breath"}
    [] key = "dizziness+palpitations" -> {"dizziness", "palpitations"}
    [] key = "headache+vision_changes" -> {"headache", "vision_changes"}
    [] key = "numbness+weakness" -> {"numbness", "weakness"}
    [] key = "rash+itching" -> {"rash", "itching"}

\* the key of the first combination fact, in the order of their declaration,
\* whose tags are all among the keywords; "" when there is none
FirstDeclaredCombo(keywords) ==
  LET applies == { i \in 1..Len(specialty_combo) :
                     \A tag \in ComboTags(specialty_combo[i].key) : In(tag, keywords) }
  IN IF applies = {} THEN ""
     ELSE specialty_combo[CHOOSE i \in applies : \A j \in applies : i <= j].key

\* C24: the combination key of the triage engine is that of the first
\* declared combination whose tags are all present, and none when there is
\* no such combination; the cardiology engine gives the composite key
\* chest_pain+shortness_of_breath only to a text with a chest-pain word and
\* a breath word; without any tag the keys are "general" and
\* "generic_cardiac_symptoms".
FirstCompositeRuleWins ==
  /\ RouteCalls # {} =>
       LET keywords == extract_symptom_keywords(JoinWords(kb.words)) IN
       /\ detect_symptom_combinations(keywords) = FirstDeclaredCombo(keywords)
       /\ tags_present(keyword_tests, Lower(JoinWords(kb.words))) = << >>
            => keywords = << "general" >>
  /\ Calls # {} =>
       LET symptoms_lower == Lower(Chars(kb.symptoms)) IN
       /\ normalize_symptoms(kb.symptoms) = "chest_pain+shortness_of_breath"
            => /\ HasAny(symptoms_lower, {"chest", "pain"})
               /\ HasAny(symptoms_lower, {"short", "breath", "breathing"})
       /\ ~HasAny(symptoms_lower,
                  {"chest", "pain", "palpitation", "racing", "irregular", "short",
                   "breath"})
            => normalize_symptoms(kb.symptoms) = "generic_cardiac_symptoms"

\* the urgency-priority scores of the facts for the keywords and the
\* combination key
FactUrgencies(keywords, combo_key) ==
  { urgency_priority[i].score :
      i \in { k \in 1..Len(urgency_priority) :
                \/ In(urgency_priority[k].key, keywords)
                \/ urgency_priority[k].key = combo_key } }

\* C25: the urgency of a routing result is the greatest urgency-priority
\* fact of the matched tags and the combination key (the default 0.50 when
\* there is no such fact), plus the age boost, plus the severity boosts,
\* capped at 1.0; it is never more than 1.0.
UrgencyIsMaxPlusBoosts ==
  \A i \in RouteCalls :
     LET symptoms == JoinWords(kb.words)
         keywords == extract_symptom_keywords(symptoms)
         facts == FactUrgencies(keywords, detect_symptom_combinations(keywords))
         base == IF facts = {} THEN 50
                 ELSE CHOOSE u \in facts : \A v \in facts : v <= u
         age == IF kb.patient_age # 0
                THEN apply_age_modifiers(kb.patient_age).total_boost ELSE 0
         sum == base + age + detect_severity_modifiers(symptoms)
     IN /\ kb.routes[i].urgency = IF sum < 100 THEN sum ELSE 100
        /\ kb.routes[i].urgency <= 100

\* the weights of the routing facts of a specialty that the keywords and
\* the combination key match
MatchedWeights(specialty, keywords, combo_key) ==
  { specialty_route[i].score :
      i \in { k \in 1..Len(specialty_route) :
                /\ specialty_route[k].value = specialty
                /\ In(specialty_route[k].key, keywords) } }
  \cup
  { specialty_combo[i].score :
      i \in { k \in 1..Len(specialty_combo) :
                /\ specialty_combo[k].value = specialty
                /\ specialty_combo[k].key = combo_key } }

\* C26: in a routing result each specialty that matched a fact has as its
\* score the greatest weight of its matched facts, a specialty that matched
\* none has no score, and the confidence is at most the greatest weight of
\* any matched fact.
ScoreIsMaxOfMatches ==
  \A i \in RouteCalls :
     LET keywords == extract_symptom_keywords(JoinWords(kb.words))
         combo_key == detect_symptom_combinations(keywords)
         scores == kb.routes[i].all_specialty_scores
         Weights(s) == MatchedWeights(s, keywords, combo_key)
         all == UNION { Weights(specialties[k]) : k \in 1..Len(specialties) }
     IN /\ \A k \in 1..Len(specialties) :
             (Weights(specialties[k]) # {})
               <=> \E j \in 1..Len(scores) : scores[j].specialty = specialties[k]
        /\ \A j \in 1..Len(scores) :
             /\ scores[j].score \in Weights(scores[j].specialty)
             /\ \A w \in Weights(scores[j].specialty) : w <= scores[j].score
        /\ all # {} => /\ kb.routes[i].confidence \in all
                       /\ \A w \in all : w <= kb.routes[i].confidence

\* a specialty took its score from several matched facts
SeveralFactsOneSpecialty ==
  \E i \in RouteCalls :
     LET keywords == extract_symptom_keywords(JoinWords(kb.words))
         combo_key == detect_symptom_combinations(keywords)
         scores == kb.routes[i].all_specialty_scores
     IN \E j \in 1..Len(scores) :
          /\ Cardinality(MatchedWeights(scores[j].specialty, keywords, combo_key)) >= 2
          /\ scores[j].specialty = kb.routes[i].recommended_specialty

\* the scores of the specialties of a routing result other than the
\* recommended one
OtherScores(result) ==
  { result.all_specialty_scores[j].score :
      j \in { k \in 1..Len(result.all_specialty_scores) :
                result.all_specialty_scores[k].specialty
                  # result.recommended_specialty } }

\* C27: the secondary specialty of a routing result is none when no other
\* specialty scored or the best other score is below 0.60; otherwise it is
\* a specialty other than the recommended one whose score is the best of
\* the other scores, also when the two best scores are equal.
SecondaryIsSecondBest ==
  \A i \in RouteCalls :
     LET result == kb.routes[i]
         scores == result.all_specialty_scores
         others == OtherScores(result)
     IN IF others = {} \/ \A w \in others : w < 60
        THEN result.secondary_specialty = ""
        ELSE /\ result.secondary_specialty # result.recommended_specialty
             /\ \E j \in 1..Len(scores) :
                  /\ scores[j].specialty = result.secondary_specialty
                  /\ scores[j].score >= 60
                  /\ \A w \in others : w <= scores[j].score
                  /\ \A k \in 1..Len(scores) :
                       scores[k].specialty = result.recommended_specialty
                         => scores[j].score <= scores[k].score

\* a routing result whose two best scores are equal has a secondary
\* specialty
SecondaryOnTie ==
  \E i \in RouteCalls :
     /\ kb.routes[i].secondary_specialty # ""
     /\ kb.routes[i].confidence \in OtherScores(kb.routes[i])

\* the weights of the risk-amplifies facts that a factor matches for the
\* general cardiac risk and for the condition (one fact at most for each)
FactorWeights(factor, condition) ==
  LET general == match_risk(factor_normalized(factor), "cardiac")
      specific == match_risk(factor_normalized(factor), condition)
  IN (IF general # << >> THEN general[1].score ELSE 0)
       + (IF specific # << >> THEN specific[1].score ELSE 0)

RECURSIVE SumWeights(_, _)
SumWeights(factors, condition) ==
  IF factors = {} THEN 0
  ELSE LET factor == CHOOSE f \in factors : TRUE
       IN FactorWeights(factor, condition)
            + SumWeights(factors \ {factor}, condition)

\* C28: the first analysis of a caller names each risk factor of the given
\* list (and the age factor) that matches a risk-amplifies fact exactly
\* once, names no other factor, and its boost is the sum of the weights of
\* the facts these factors match.
MatchedFactorsOnce ==
  1 \in Calls =>
     LET result == kb.results[1]
         given == with_age(kb.passed, kb.patient_age)
         matched == { given[k] : k \in { j \in 1..Len(given) :
                        FactorWeights(given[j], result.condition) > 0 } }
         identified == result.risk_factors_identified
         Count(factor) == Cardinality({ k \in 1..Len(identified) :
                                          identified[k] = factor })
     IN /\ \A factor \in matched : Count(factor) = 1
        /\ \A k \in 1..Len(identified) : identified[k] \in matched
        /\ result.risk_amplification = SumWeights(matched, result.condition)

\* C29: a sweep leaves every session whose age is at most the threshold of
\* 5 minutes in the table, with all its fields as they were.
SweepKeepsFresh ==
  [][ last'.op = "cleanup_stale_sessions" =>
        \A sid \in DOMAIN active_sessions :
           active_sessions[sid].age <= timeout_threshold =>
              /\ sid \in DOMAIN active_sessions'
              /\ active_sessions'[sid] = active_sessions[sid] ]_vars

\* a sweep has removed a session and kept one that was exactly 5 minutes old
SweptBesideFresh ==
  /\ last.op = "cleanup_stale_sessions"
  /\ last.removed # {}
  /\ \E sid \in DOMAIN active_sessions :
        active_sessions[sid].age = timeout_threshold

\* a text in which one of the six greeting words occurs, in any case
ClassifiedGreeting(message) ==
  \E g \in {"hi", "hello", "hey", "help", "start", "greetings"} :
     IsSubstring(Chars(g), Lower(Chars(message)))

\* C30: a handler that takes a greeting answers its sender with the welcome
\* text (the bridge handler also acknowledges), leaves the session table
\* as it was and sends nothing to the agents; a session or a request to an
\* agent that such a handler makes never carries a greeting.
GreetingOnlyWelcomed ==
  [][ /\ last'.outcome = "greeting" =>
           /\ last'.op \in {"handle_chat_message", "handle_bridge_chat",
                            "handle_web_query"}
           /\ active_sessions' = active_sessions
           /\ net' = net /\ last'.toNet = {} /\ last'.removed = {}
           /\ queries' = queries
           /\ outbox' = outbox \cup last'.toUser
           /\ Cardinality({ m \in last'.toUser : m.kind = "greeting" }) = 1
           /\ \A m \in last'.toUser :
                 m.kind \in {"greeting", "ack"}
                 /\ (m.kind = "ack" => last'.op = "handle_bridge_chat")
      /\ (last'.outcome # "greeting" /\ last'.op \in {"handle_chat_message",
                      "handle_bridge_chat", "handle_web_query"}) =>
           /\ \A sid \in DOMAIN active_sessions' :
                 (sid \notin DOMAIN active_sessions
                    \/ active_sessions'[sid] # active_sessions[sid])
                   => ~ClassifiedGreeting(active_sessions'[sid].symptoms)
           /\ \A m \in net' \ net : ~ClassifiedGreeting(m.symptoms)
           /\ \A c \in queries' \ queries : ~ClassifiedGreeting(c.text) ]_vars

\* a greeting has been welcomed while a session was under way
GreetedBesideSession ==
  /\ last.outcome = "greeting"
  /\ active_sessions # << >>
  /\ \E m \in last.toUser : m.kind = "greeting" /\ m.to = "u1"

\* the ages below the caller's age, 0 taken as no age given
LowerAges(ages) == { a \in ages : a # 0 /\ a < kb.patient_age }

\* C31: with the condition and the list of risk factors fixed, the risk
\* boost of an engine at the caller's age is at least its boost at any
\* lower age, and an age factor identified at a lower age is matched by an
\* age factor at the caller's age.
BoostGrowsWithAge ==
  /\ (kb.pc = "neurology" /\ kb.boosts # << >>) =>
       \A a \in LowerAges(NeurologyAges) :
          LET lower == neurology_calculate_risk_amplification(
                         kb.condition, kb.passed, a)
              AgeFactors(risk) ==
                { k \in 1..Len(risk.identified_factors) :
                    risk.identified_factors[k] \in {"age_over_60", "age_over_70"} }
          IN /\ lower.total_boost <= kb.boosts[1].total_boost
             /\ AgeFactors(lower) # {} => AgeFactors(kb.boosts[1]) # {}
  /\ 1 \in Calls =>
       \A a \in LowerAges(Ages) :
          LET lower == calculate_risk_amplification(
                         kb.results[1].condition, kb.passed, a)
              AgeFactors(identified) ==
                { k \in 1..Len(identified) :
                    identified[k] \in {"age_over_40", "age_over_60"} }
          IN /\ lower.total_boost <= kb.results[1].risk_amplification
             /\ AgeFactors(lower.identified_factors) # {}
                  => AgeFactors(kb.results[1].risk_factors_identified) # {}

\* a key has a condition fact: symptom-cluster or symptom-indicates
HasConditionFact(symptom_key) ==
  \/ match_key(symptom_cluster, symptom_key) # << >>
  \/ match_key(symptom_indicates, symptom_key) # << >>

\* C32: the key of every analysed text, unless it is the generic key, has
\* a condition fact, and an analysis gives the default condition angina at
\* the base confidence 0.50 for the generic key only.
EmittedKeysHaveFacts ==
  \A i \in Calls :
     LET symptom_key == normalize_symptoms(kb.symptoms) IN
     /\ symptom_key # "generic_cardiac_symptoms" => HasConditionFact(symptom_key)
     /\ (kb.results[i].condition = "angina" /\ kb.results[i].base_confidence = 50)
          => symptom_key = "generic_cardiac_symptoms"

====
